---- MODULE Spec2Model ----
(***************************************************************************)
(* A model of the TestFlow script runner (src/testflow/runner.py): the     *)
(* structural parser, the graph-walking execution engine run_script_new,   *)
(* the result stream (CSV) cell updates, the run-state token (status.txt)  *)
(* and the restricted expression evaluator.                                *)
(*                                                                         *)
(* Text is modelled as a sequence of one-character strings, a script as a  *)
(* sequence of lexed lines, a path as a sequence of components.            *)
(***************************************************************************)
EXTENDS Integers, Sequences, FiniteSets, TLC

VARIABLES
    eng,      \* the running engine instance: the locals of run_script_new
    stack,    \* suspended parent instances (a Work_flow call is synchronous)
    tokens,   \* status.txt files: path of the directory -> text written
    csvs,     \* result streams: path -> sequence of rows of cells
    logs,     \* [mem |-> _TESTFLOW_LOGS holds lines, files |-> the log files written]
    obs,      \* number of writes the external observer has made to the token
    hist,     \* observation record: what the run has done so far
    ev        \* the pure-function harness: [fn, arg, out]

vars == <<eng, stack, tokens, csvs, logs, obs, hist, ev>>

(***************************************************************************)
(* Bounds of the model.                                                    *)
(***************************************************************************)
MaxObserverWrites == 3
MaxIterations == 3
MaxLiteral == 2
MaxLines == 40

(***************************************************************************)
(* Python's None for integer-valued slots, and the id of the Terminal      *)
(* reference ("X").                                                        *)
(***************************************************************************)
NoneV == -1
XID == -2

(***************************************************************************)
(* Finite maps.                                                            *)
(***************************************************************************)
EmptyMap == <<>>
Put(f, k, v) == [x \in (DOMAIN f) \cup {k} |-> IF x = k THEN v ELSE f[x]]
Has(f, k) == k \in DOMAIN f
Del(f, k) == [x \in (DOMAIN f) \ {k} |-> f[x]]

(***************************************************************************)
(* Text.                                                                   *)
(***************************************************************************)
Digits == <<"0", "1", "2", "3", "4", "5", "6", "7", "8", "9">>

RECURSIVE Str(_)
Str(n) == IF n < 10 THEN <<Digits[n + 1]>>
          ELSE Str(n \div 10) \o <<Digits[(n % 10) + 1]>>

\* str(float): the variable values of the model are whole numbers held as floats
FloatStr(n) == Str(n) \o <<".", "0">>

WordChars ==
    {"a","b","c","d","e","f","g","h","i","j","k","l","m","n","o","p","q","r",
     "s","t","u","v","w","x","y","z",
     "A","B","C","D","E","F","G","H","I","J","K","L","M","N","O","P","Q","R",
     "S","T","U","V","W","X","Y","Z",
     "0","1","2","3","4","5","6","7","8","9","_"}

RECURSIVE LStrip(_)
LStrip(s) == IF s # <<>> /\ Head(s) = " " THEN LStrip(Tail(s)) ELSE s

RECURSIVE RStrip(_)
RStrip(s) == IF s # <<>> /\ s[Len(s)] = " " THEN RStrip(SubSeq(s, 1, Len(s) - 1)) ELSE s

Strip(s) == RStrip(LStrip(s))

\* re.sub(r"\s+", "_", s)
RECURSIVE SquashSpaces(_)
SquashSpaces(s) ==
    IF s = <<>> THEN <<>>
    ELSE IF Head(s) = " " THEN <<"_">> \o SquashSpaces(LStrip(s))
    ELSE <<Head(s)>> \o SquashSpaces(Tail(s))

KeepWord(c) == c \in WordChars \/ c = "-"

\* A column argument is a name (text) or an ordinal index.
ColName(s) == [isStr |-> TRUE, s |-> s, i |-> 0]
ColIdx(i) == [isStr |-> FALSE, s |-> <<>>, i |-> i]

\* _sanitize_title(s): s.strip() raises AttributeError when s is an int.
_sanitize_title(col) ==
    IF ~col.isStr THEN [raised |-> TRUE, col |-> col]
    ELSE [raised |-> FALSE,
          col |-> ColName(SelectSeq(SquashSpaces(Strip(col.s)), KeepWord))]

T_N == <<"N">>
T_Date == <<"D", "a", "t", "e">>
T_Time == <<"T", "i", "m", "e">>
T_Loop == <<"L", "o", "o", "p">>
T_None == <<"N", "o", "n", "e">>
T_img == <<"i", "m", "g">>
T_set == <<"s", "e", "t">>

LoopColumn(id) == T_Loop \o <<"(">> \o Str(id) \o <<")">>
ActionColumn(title, suffix, node, idx) ==
    title \o suffix \o <<"(", "N">> \o node \o <<"|", "A">> \o Str(idx) \o <<")">>

(***************************************************************************)
(* Script lines.  A line is lexed into the form the runner's prefix tests  *)
(* and regular expressions recognise:                                      *)
(*   k    the line form                                                    *)
(*   id   node / loop id            n    iteration count / expression      *)
(*   rt, rid   inline successor reference: (N<rid>) or (LE<rid>)           *)
(*   s    title, variable or workflow name     c  command flavour          *)
(*   a, b, v   Range sub-interval and constant value                       *)
(*   v, hi, step   the sweep (start, end, step) of a Range line with       *)
(*        c = "sweep"; any other non-empty c is a Range line the parser    *)
(*        cannot read                                                      *)
(***************************************************************************)
Ln(k) == [k |-> k, id |-> 0, n |-> 0, rt |-> "", rid |-> 0, s |-> <<>>, c |-> "",
          a |-> 0, b |-> 0, v |-> 0, hi |-> 0, step |-> 0]

StartScript == Ln("#START_SCRIPT")
\* a start line whose text also holds another marker
StartScriptWith(marker) == [Ln("#START_SCRIPT") EXCEPT !.c = marker]
EndScript == Ln("#END_SCRIPT")
Node(i) == [Ln("#NODE") EXCEPT !.id = i]
EndNode(i) == [Ln("#END_NODE") EXCEPT !.id = i]
EndNodeTo(i, rt, rid) == [Ln("#END_NODE") EXCEPT !.id = i, !.rt = rt, !.rid = rid]
NodeIf(i, e) == [Ln("#NODE_IF") EXCEPT !.id = i, !.n = e]
TrueLn(rt, rid) == [Ln("TRUE:") EXCEPT !.rt = rt, !.rid = rid]
FalseLn(rt, rid) == [Ln("FALSE:") EXCEPT !.rt = rt, !.rid = rid]
EndIf == Ln("#END_IF")
LoopStart(i, iters, rid) == [Ln("Loop_start") EXCEPT !.id = i, !.n = iters, !.rt = "N", !.rid = rid]
LoopEnd(i) == [Ln("Loop_end") EXCEPT !.id = i]
LoopEndTo(i, rt, rid) == [Ln("Loop_end") EXCEPT !.id = i, !.rt = rt, !.rid = rid]
Variable(name) == [Ln("Variable:") EXCEPT !.s = name]
RangeConst(a, b, v) == [Ln("Range:") EXCEPT !.a = a, !.b = b, !.v = v]
\* Range:(a,b),(start,end,step)
RangeSweep(a, b, start, end, step) ==
    [Ln("Range:") EXCEPT !.a = a, !.b = b, !.v = start, !.hi = end, !.step = step, !.c = "sweep"]
\* a Range line that is not of the form (a,b),value: "no-interval" has no
\* (a,b) part, "short-sweep" a parenthesised value that is not a triple,
\* "not-a-number" a constant that float() rejects
RangeBad(form) == [Ln("Range:") EXCEPT !.c = form]
Inst == Ln("INST::")
Action(title) == [Ln("#ACTION:") EXCEPT !.s = title]
CmdWrite == [Ln("CMD:") EXCEPT !.c = "write"]
CmdQuery == [Ln("CMD:") EXCEPT !.c = "query"]
Qry == Ln("QRY:")
Message == Ln("MESSAGE:")
\* CMD: ${name}=<expression e of MathExprs>
MathLine(name, e) == [Ln("CMD:") EXCEPT !.s = name, !.n = e, !.c = "math"]
WorkFlow(name) == [Ln("Work_flow:") EXCEPT !.s = name]
StartWorkflow(name) == [Ln("#START_WORKFLOW") EXCEPT !.s = name]
EndWorkflow(name) == [Ln("#END_WORKFLOW") EXCEPT !.s = name]

\* read_line_from_script: a line number out of range yields a text that
\* matches no prefix.
OutOfRange == Ln("out-of-range")
read_line_from_script(script, line_number) ==
    IF line_number >= 1 /\ line_number <= Len(script) THEN script[line_number]
    ELSE OutOfRange

check_line_prefix(line, prefix) ==
    \/ line.k = prefix
    \/ prefix = "#NODE" /\ line.k = "#NODE_IF"

(***************************************************************************)
(* parse_script_structured_v6: the executable window, the node and loop    *)
(* tables and the resolution of the references.                            *)
(***************************************************************************)
NoRef == [type |-> "", id |-> 0, line |-> NoneV]
EmptyNode == [type |-> "", start |-> NoneV, end |-> NoneV, equation |-> 0,
              next |-> NoRef, true |-> NoRef, false |-> NoRef]
EmptyLoop == [type |-> "", start |-> NoneV, end |-> NoneV,
              current_iteration |-> NoneV, iterations |-> NoneV, next |-> NoRef]

\* dict.get(key, {}) on the node / loop tables
GetNode(nodes, id) == IF Has(nodes, id) THEN nodes[id] ELSE EmptyNode
GetLoop(loops, id) == IF Has(loops, id) THEN loops[id] ELSE EmptyLoop

\* next((i for i in range(from, len+1) if marker in line i), None)
\* `marker in line`: the line starts with the marker or holds it further on
HasMarker(L, k) == L.k = k \/ L.c = k

FirstLine(script, from, k) ==
    LET hits == {i \in from..Len(script) : HasMarker(script[i], k)}
    IN IF hits = {} THEN NoneV ELSE CHOOSE i \in hits : \A j \in hits : i <= j

\* the window with the end markers searched from the top of the file
ScriptWindow_from_top(script) ==
    LET start_idx == FirstLine(script, 1, "#START_SCRIPT")
        end_idx == FirstLine(script, 1, "#END_SCRIPT")
        wf_idx == FirstLine(script, 1, "#START_WORKFLOW")
    IN IF start_idx = NoneV THEN [error |-> "START_SCRIPT not found", start_line |-> NoneV, end_line |-> NoneV]
       ELSE IF end_idx # NoneV THEN [error |-> "", start_line |-> start_idx, end_line |-> end_idx]
       ELSE IF wf_idx = NoneV THEN [error |-> "END_SCRIPT not found", start_line |-> NoneV, end_line |-> NoneV]
       ELSE IF wf_idx - 1 < start_idx THEN [error |-> "START_WORKFLOW before START_SCRIPT", start_line |-> NoneV, end_line |-> NoneV]
       ELSE [error |-> "", start_line |-> start_idx, end_line |-> wf_idx - 1]

ScriptWindow(script) ==
    LET start_idx == FirstLine(script, 1, "#START_SCRIPT")
        end_idx == IF start_idx = NoneV THEN NoneV
                   ELSE FirstLine(script, start_idx, "#END_SCRIPT")
        wf_idx == IF start_idx = NoneV THEN NoneV
                  ELSE FirstLine(script, start_idx, "#START_WORKFLOW")
    IN IF start_idx = NoneV THEN [error |-> "START_SCRIPT not found", start_line |-> NoneV, end_line |-> NoneV]
       ELSE IF end_idx # NoneV THEN [error |-> "", start_line |-> start_idx, end_line |-> end_idx]
       ELSE IF wf_idx = NoneV THEN [error |-> "END_SCRIPT not found", start_line |-> NoneV, end_line |-> NoneV]
       ELSE IF wf_idx - 1 < start_idx THEN [error |-> "START_WORKFLOW before START_SCRIPT", start_line |-> NoneV, end_line |-> NoneV]
       ELSE [error |-> "", start_line |-> start_idx, end_line |-> wf_idx - 1]

ParseInit == [nodes |-> EmptyMap, loops |-> EmptyMap, refs |-> <<>>,
              in_if |-> FALSE, if_id |-> 0, if_equ |-> 0, if_start_line |-> NoneV,
              if_next_true |-> NoRef, if_next_false |-> NoRef,
              if_true_src |-> NoneV, if_false_src |-> NoneV]

MkRef(kind, src, rt, rid, source_line) ==
    [kind |-> kind, src |-> src, rtype |-> rt, rid |-> rid, source_line |-> source_line]

\* One pass of the scanning loop over line `lineno`.
ParseLine(P, L, lineno) ==
    IF P.in_if THEN
        IF L.k = "TRUE:" THEN
            [P EXCEPT !.if_next_true = [type |-> L.rt, id |-> L.rid, line |-> NoneV],
                      !.if_true_src = lineno]
        ELSE IF L.k = "FALSE:" THEN
            [P EXCEPT !.if_next_false = [type |-> L.rt, id |-> L.rid, line |-> NoneV],
                      !.if_false_src = lineno]
        ELSE IF L.k = "#END_IF" THEN
            LET old == GetNode(P.nodes, P.if_id)
                n1 == [old EXCEPT !.type = "IF", !.equation = P.if_equ,
                                  !.start = IF old.start = NoneV THEN P.if_start_line ELSE old.start,
                                  !.end = lineno,
                                  !.true = IF P.if_next_true.type # "" THEN P.if_next_true ELSE old.true,
                                  !.false = IF P.if_next_false.type # "" THEN P.if_next_false ELSE old.false]
                r1 == IF P.if_next_true.type # ""
                      THEN <<MkRef("NODE_IF_TRUE", P.if_id, P.if_next_true.type, P.if_next_true.id, P.if_true_src)>>
                      ELSE <<>>
                r2 == IF P.if_next_false.type # ""
                      THEN <<MkRef("NODE_IF_FALSE", P.if_id, P.if_next_false.type, P.if_next_false.id, P.if_false_src)>>
                      ELSE <<>>
            IN [P EXCEPT !.nodes = Put(P.nodes, P.if_id, n1),
                         !.refs = P.refs \o r1 \o r2,
                         !.in_if = FALSE, !.if_id = 0, !.if_equ = 0, !.if_start_line = NoneV,
                         !.if_next_true = NoRef, !.if_next_false = NoRef,
                         !.if_true_src = NoneV, !.if_false_src = NoneV]
        ELSE P
    ELSE IF L.k = "#NODE_IF" THEN
        LET old == GetNode(P.nodes, L.id)
        IN [P EXCEPT !.in_if = TRUE, !.if_id = L.id, !.if_equ = L.n, !.if_start_line = lineno,
                     !.nodes = Put(P.nodes, L.id,
                                   [old EXCEPT !.start = IF old.start = NoneV THEN lineno ELSE old.start])]
    ELSE IF L.k = "#NODE" THEN
        LET old == GetNode(P.nodes, L.id)
        IN [P EXCEPT !.nodes = Put(P.nodes, L.id,
                [old EXCEPT !.type = IF old.type = "" THEN "N" ELSE old.type,
                            !.start = IF old.start = NoneV THEN lineno ELSE old.start])]
    ELSE IF L.k = "#END_NODE" THEN
        LET old == GetNode(P.nodes, L.id)
            n1 == [old EXCEPT !.type = IF old.type = "" THEN "NODE" ELSE old.type,
                              !.end = lineno,
                              !.next = IF L.rt # "" THEN [type |-> L.rt, id |-> L.rid, line |-> NoneV]
                                       ELSE old.next]
        IN [P EXCEPT !.nodes = Put(P.nodes, L.id, n1),
                     !.refs = IF L.rt # "" THEN Append(P.refs, MkRef("NODE", L.id, L.rt, L.rid, lineno))
                              ELSE P.refs]
    ELSE IF L.k = "Loop_start" /\ L.rid # 0 THEN        \* full form: id, iterations, (N<k>)
        LET old == GetLoop(P.loops, L.id)
            l1 == [old EXCEPT !.start = IF old.start = NoneV THEN lineno ELSE old.start,
                              !.current_iteration = IF old.current_iteration = NoneV THEN 1
                                                    ELSE old.current_iteration,
                              !.type = "loop", !.iterations = L.n,
                              !.next = [type |-> "N", id |-> L.rid, line |-> NoneV]]
        IN [P EXCEPT !.loops = Put(P.loops, L.id, l1),
                     !.refs = Append(P.refs, MkRef("LOOP_START", L.id, "N", L.rid, lineno))]
    ELSE IF L.k = "Loop_start" THEN                     \* basic form: no successor
        LET old == GetLoop(P.loops, L.id)
            l1 == [old EXCEPT !.start = IF old.start = NoneV THEN lineno ELSE old.start,
                              !.current_iteration = IF old.current_iteration = NoneV THEN 0
                                                    ELSE old.current_iteration,
                              !.type = IF old.type = "" THEN "loop" ELSE old.type]
        IN [P EXCEPT !.loops = Put(P.loops, L.id, l1)]
    ELSE IF L.k = "Loop_end" THEN
        LET old == GetLoop(P.loops, L.id)
        IN [P EXCEPT !.loops = Put(P.loops, L.id,
                [old EXCEPT !.type = IF old.type = "" THEN "loop" ELSE old.type, !.end = lineno])]
    ELSE P

RECURSIVE ParseScan(_, _, _, _)
ParseScan(P, script, lineno, end_idx) ==
    IF lineno > end_idx THEN P
    ELSE ParseScan(ParseLine(P, script[lineno], lineno), script, lineno + 1, end_idx)

\* dest_line of a reference: the start of node N<rid> or the end of loop LE<rid>
DestLine(P, r) ==
    IF r.rtype = "N" THEN GetNode(P.nodes, r.rid).start
    ELSE IF r.rtype = "LE" THEN GetLoop(P.loops, r.rid).end
    ELSE NoneV

ResolvedLine(P, r) == IF DestLine(P, r) # NoneV THEN DestLine(P, r) ELSE r.source_line

ResolveOne(P, r) ==
    IF r.kind = "NODE" /\ GetNode(P.nodes, r.src).next.type # "" THEN
        [P EXCEPT !.nodes[r.src].next.line = ResolvedLine(P, r)]
    ELSE IF r.kind = "LOOP_START" /\ GetLoop(P.loops, r.src).next.type # "" THEN
        [P EXCEPT !.loops[r.src].next.line = ResolvedLine(P, r)]
    ELSE IF r.kind = "NODE_IF_TRUE" /\ GetNode(P.nodes, r.src).true.type # "" THEN
        [P EXCEPT !.nodes[r.src].true.line = ResolvedLine(P, r)]
    ELSE IF r.kind = "NODE_IF_FALSE" /\ GetNode(P.nodes, r.src).false.type # "" THEN
        [P EXCEPT !.nodes[r.src].false.line = ResolvedLine(P, r)]
    ELSE P

RECURSIVE ResolveRefs(_, _)
ResolveRefs(P, i) ==
    IF i > Len(P.refs) THEN P ELSE ResolveRefs(ResolveOne(P, P.refs[i]), i + 1)

ParseWarnings(P) == SelectSeq(P.refs, LAMBDA r : DestLine(P, r) = NoneV)

\* Default next for standard nodes with no explicit next
DefaultNext(rec, end_idx) ==
    IF rec.type # "IF" /\ rec.end # NoneV /\ rec.next.type = ""
    THEN [rec EXCEPT !.next = [type |-> "X", id |-> XID,
                               line |-> IF rec.end < end_idx THEN rec.end + 1 ELSE NoneV]]
    ELSE rec

parse_script_structured_v6(script) ==
    LET w == ScriptWindow(script)
        P0 == ParseScan(ParseInit, script, w.start_line, w.end_line)
        P1 == ResolveRefs(P0, 1)
    IN IF w.error # "" THEN [error |-> w.error, window |-> w, nodes |-> EmptyMap,
                             loops |-> EmptyMap, warnings |-> <<>>]
       ELSE [error |-> "", window |-> w,
             nodes |-> [id \in DOMAIN P1.nodes |-> DefaultNext(P1.nodes[id], w.end_line)],
             loops |-> P1.loops,
             warnings |-> ParseWarnings(P0)]

(***************************************************************************)
(* Variables: parse_variable_ranges / get_all_variable_arrays.             *)
(***************************************************************************)
Repeat(v, n) == [i \in 1..n |-> v]

\* the sweep loop without the hold at val_end
SweepValues_unheld(num_points, current, val_end, step) ==
    [i \in 1..num_points |-> current + (i - 1) * step]

\* the sweep loop: num_points values from val_start, each the previous plus
\* step, held at val_end once a step passes it
RECURSIVE SweepValues(_, _, _, _)
SweepValues(num_points, current, val_end, step) ==
    IF num_points <= 0 THEN <<>>
    ELSE LET next == current + step
             held == IF (step > 0 /\ next > val_end) \/ (step < 0 /\ next < val_end)
                     THEN val_end ELSE next
         IN <<current>> \o SweepValues(num_points - 1, held, val_end, step)

\* the exception one Range line raises, "" when it is read
RangeError(line) ==
    IF line.c \in {"", "sweep"} THEN ""
    ELSE IF line.c = "short-sweep" THEN "AttributeError"
    ELSE "ValueError"

\* the values of the Range lines that follow the Variable line at index i
RECURSIVE RangeValues(_, _)
RangeValues(script, i) ==
    IF i <= Len(script) /\ script[i].k = "Range:"
    THEN LET line == script[i]
             num_points == line.b - line.a + 1
             rest == RangeValues(script, i + 1)
         IN IF RangeError(line) # "" THEN [raised |-> RangeError(line), values |-> <<>>]
            ELSE IF rest.raised # "" THEN rest
            ELSE [raised |-> "",
                  values |-> (IF line.c = "sweep"
                              THEN SweepValues(num_points, line.v, line.hi, line.step)
                              ELSE Repeat(line.v, num_points)) \o rest.values]
    ELSE [raised |-> "", values |-> <<>>]

parse_variable_ranges(script, start_index) ==
    LET r == RangeValues(script, start_index + 1)
    IN [raised |-> r.raised, name |-> script[start_index].s, values |-> r.values]

\* the scan of get_all_variable_arrays; an exception of the parser ends it
\* and leaves the table as built so far
RECURSIVE VariableScan(_, _, _, _)
VariableScan(script, i, end_line, acc) ==
    IF i > end_line THEN acc
    ELSE IF script[i].k = "Variable:" THEN
        LET pv == parse_variable_ranges(script, i)
            rec == [values |-> pv.values,
                    current_value |-> IF pv.values # <<>> THEN pv.values[1] ELSE NoneV]
        IN IF pv.raised # "" THEN acc
           ELSE VariableScan(script, i + 1, end_line, Put(acc, pv.name, rec))
    ELSE VariableScan(script, i + 1, end_line, acc)

get_all_variable_arrays(script, start_line, end_line) ==
    LET n == Len(script)
        sl == IF start_line < 1 THEN 1 ELSE start_line
        el == IF end_line > n THEN n ELSE end_line
    IN IF n = 0 \/ sl > el THEN EmptyMap ELSE VariableScan(script, sl, el, EmptyMap)

(***************************************************************************)
(* The result schema: build_csv_headers_from_script.                       *)
(***************************************************************************)
RECURSIVE SortedSeq(_)
SortedSeq(S) == IF S = {} THEN <<>>
                ELSE LET m == CHOOSE x \in S : \A y \in S : x <= y
                     IN <<m>> \o SortedSeq(S \ {m})

InSeq(x, sq) == \E i \in 1..Len(sq) : sq[i] = x
AppendNew(sq, x) == IF InSeq(x, sq) THEN sq ELSE Append(sq, x)

LoopNumbers(script) == {script[i].id : i \in {j \in 1..Len(script) : script[j].k = "Loop_start"}}

RECURSIVE VariableNames(_, _, _)
VariableNames(script, i, acc) ==
    IF i > Len(script) THEN acc
    ELSE IF script[i].k = "Variable:" /\ script[i].s # <<>>
         THEN VariableNames(script, i + 1, AppendNew(acc, script[i].s))
         ELSE VariableNames(script, i + 1, acc)

HeaderInit == [cols |-> <<>>, current_node |-> NoneV, idx |-> EmptyMap, in_action |-> FALSE,
               title |-> <<>>, has_query |-> FALSE, types |-> {}]

_flush_action_column(H) ==
    IF H.current_node # NoneV /\ H.title # <<>> /\ H.has_query THEN
        LET t == _sanitize_title(ColName(H.title)).col.s
            nd == Str(H.current_node)
            ix == H.idx[H.current_node]
            c1 == IF "query" \in H.types THEN AppendNew(H.cols, ActionColumn(t, <<>>, nd, ix)) ELSE H.cols
            c2 == IF "png" \in H.types THEN AppendNew(c1, ActionColumn(t, T_img, nd, ix)) ELSE c1
            c3 == IF "set" \in H.types THEN AppendNew(c2, ActionColumn(t, T_set, nd, ix)) ELSE c2
        IN [H EXCEPT !.cols = c3]
    ELSE H

CloseAction(H) ==
    IF H.in_action
    THEN [_flush_action_column(H) EXCEPT !.in_action = FALSE, !.title = <<>>,
                                         !.has_query = FALSE, !.types = {}]
    ELSE H

HeaderLine(H, L) ==
    IF L.k = "#NODE" THEN
        LET H1 == CloseAction(H)
        IN [H1 EXCEPT !.current_node = L.id,
                      !.idx = IF Has(H1.idx, L.id) THEN H1.idx ELSE Put(H1.idx, L.id, 0)]
    ELSE IF L.k = "#ACTION:" THEN
        LET H1 == IF H.in_action THEN _flush_action_column(H) ELSE H
        IN [H1 EXCEPT !.in_action = TRUE, !.title = Strip(L.s), !.has_query = FALSE, !.types = {},
                      !.idx = IF H1.current_node # NoneV
                              THEN [H1.idx EXCEPT ![H1.current_node] = @ + 1] ELSE H1.idx]
    ELSE IF H.in_action /\ ((L.k = "CMD:" /\ L.c = "query") \/ L.k = "QRY:") THEN
        [H EXCEPT !.has_query = TRUE, !.types = @ \cup {"query"}]
    ELSE IF H.in_action /\ L.k = "PNG:" THEN
        [H EXCEPT !.has_query = TRUE, !.types = @ \cup {"png"}]
    ELSE IF H.in_action /\ L.k = "SET:" THEN
        [H EXCEPT !.has_query = TRUE, !.types = @ \cup {"set"}]
    ELSE IF L.k = "#END_NODE" THEN
        [CloseAction(H) EXCEPT !.current_node = NoneV]
    ELSE H

RECURSIVE HeaderScan(_, _, _)
HeaderScan(H, script, i) ==
    IF i > Len(script) THEN (IF H.in_action THEN _flush_action_column(H) ELSE H)
    ELSE HeaderScan(HeaderLine(H, script[i]), script, i + 1)

\* the header with the loop columns in the order the loops are declared
build_csv_headers_declared_order(script) ==
    LET starts == SelectSeq(script, LAMBDA l : l.k = "Loop_start")
    IN <<T_N>> \o [i \in 1..Len(starts) |-> LoopColumn(starts[i].id)]
       \o VariableNames(script, 1, <<>>)
       \o HeaderScan(HeaderInit, script, 1).cols \o <<T_Date, T_Time>>

build_csv_headers_from_script(script) ==
    LET loopcols == [i \in 1..Cardinality(LoopNumbers(script)) |->
                        LoopColumn(SortedSeq(LoopNumbers(script))[i])]
    IN <<T_N>> \o loopcols \o VariableNames(script, 1, <<>>)
       \o HeaderScan(HeaderInit, script, 1).cols \o <<T_Date, T_Time>>

(***************************************************************************)
(* The result stream.  A stream is a sequence of rows, a row a sequence of *)
(* cells, a cell a text; row r of the file (0-based, the header is row 0)  *)
(* is element r + 1.                                                       *)
(***************************************************************************)
BlankRow(n) == [i \in 1..n |-> <<>>]

RECURSIVE PadRows(_, _, _)
PadRows(rows, row_index, width) ==
    IF Len(rows) <= row_index THEN PadRows(Append(rows, BlankRow(width)), row_index, width)
    ELSE rows

IndexOf(sq, x) == CHOOSE i \in 1..Len(sq) : sq[i] = x /\ \A j \in 1..(i - 1) : sq[j] # x

\* update_csv_cell on the content `rows` of an existing file: the new
\* content, or the exception raised.
update_csv_cell(rows, row_index, column, value) ==
    LET sc == _sanitize_title(column)
        col == sc.col
    IN IF sc.raised THEN [raised |-> "AttributeError", rows |-> rows]
       ELSE IF rows = <<>> THEN [raised |-> "IndexError", rows |-> rows]
       ELSE IF col.isStr /\ ~InSeq(col.s, rows[1]) THEN [raised |-> "ValueError", rows |-> rows]
       ELSE LET ci == IF col.isStr THEN IndexOf(rows[1], col.s) ELSE col.i + 1
                padded == PadRows(rows, row_index, Len(rows[1]))
            IN IF ci < 1 \/ ci > Len(padded[row_index + 1])
               THEN [raised |-> "IndexError", rows |-> rows]
               ELSE [raised |-> "", rows |-> [padded EXCEPT ![row_index + 1][ci] = value]]

\* write_text_to_row_first_col
write_text_to_row_first_col(rows, row_index, text) ==
    LET width == IF rows # <<>> /\ Len(rows[1]) # 0 THEN Len(rows[1]) ELSE 1
        padded == PadRows(rows, row_index, width)
        fixed == IF padded[row_index + 1] = <<>>
                 THEN [padded EXCEPT ![row_index + 1] = BlankRow(width)] ELSE padded
    IN [fixed EXCEPT ![row_index + 1][1] = text]

T_Starting == <<"*", "S", "t", "a", "r", "t", "i", "n", "g">>
T_SubEnded == <<"*", "S", "u", "b", "_", "s", "c", "r", "i", "p", "t", " ", "e", "n", "d", "e", "d">>

\* concat_csv_into_second(first_csv, second_csv, skip_header_first): the
\* new content of the second file; the caller passes no third argument.
concat_csv_into_second(first, second, skip_header_first) ==
    LET header_row == second[1]
        num_cols == IF header_row # <<>> THEN Len(header_row) ELSE 1
        rows_to_add == IF skip_header_first /\ first # <<>> THEN Tail(first) ELSE first
        star_row == <<T_SubEnded>> \o BlankRow(num_cols - 1)
    IN second \o rows_to_add \o <<star_row>> \o <<header_row>>

(***************************************************************************)
(* Sub-workflows: parse_workflows_from_script, create_subworkflow.         *)
(***************************************************************************)
\* the first matching #END_WORKFLOW(name) after line `from`, or NoneV
MatchingEnd(script, from, name) ==
    LET hits == {i \in (from + 1)..Len(script) :
                    script[i].k = "#END_WORKFLOW" /\ script[i].s = name}
    IN IF hits = {} THEN NoneV ELSE CHOOSE i \in hits : \A j \in hits : i <= j

RECURSIVE WorkflowScan(_, _, _)
WorkflowScan(script, lineno, acc) ==
    IF lineno > Len(script) THEN acc
    ELSE IF script[lineno].k = "#START_WORKFLOW" THEN
        LET name == script[lineno].s
            end_line == MatchingEnd(script, lineno, name)
        IN IF end_line = NoneV
           THEN WorkflowScan(script, lineno + 1,
                    [acc EXCEPT !.warnings = Append(@, [kind |-> "no-end", line |-> lineno])])
           ELSE WorkflowScan(script, end_line + 1,
                    [acc EXCEPT !.workflows = Append(@,
                        [name |-> name, start_line |-> lineno, end_line |-> end_line,
                         lines |-> SubSeq(script, lineno + 1, end_line - 1)])])
    ELSE IF script[lineno].k = "#END_WORKFLOW" THEN
        WorkflowScan(script, lineno + 1,
            [acc EXCEPT !.warnings = Append(@, [kind |-> "no-start", line |-> lineno])])
    ELSE WorkflowScan(script, lineno + 1, acc)

parse_workflows_from_script(script) ==
    WorkflowScan(script, 1, [workflows |-> <<>>, warnings |-> <<>>])

\* workflows_obi["workflows"][wf_name]: the instances of that name, in order
WorkflowInstances(script, name) ==
    SelectSeq(parse_workflows_from_script(script).workflows, LAMBDA w : w.name = name)

insert_end_script(lines) ==
    LET hits == {i \in 1..Len(lines) : lines[i].k = "#START_WORKFLOW"}
        idx == CHOOSE i \in hits : \A j \in hits : i <= j
    IN IF hits # {} THEN
           IF idx = 1 \/ lines[idx - 1].k # "#END_SCRIPT"
           THEN SubSeq(lines, 1, idx - 1) \o <<EndScript>> \o SubSeq(lines, idx, Len(lines))
           ELSE lines
       ELSE IF lines = <<>> \/ lines[Len(lines)].k # "#END_SCRIPT" THEN Append(lines, EndScript)
       ELSE lines

create_subworkflow(lines) == insert_end_script(<<StartScript>> \o lines)

(***************************************************************************)
(* Expressions.  An expression text is held as the tree ast.parse builds   *)
(* from it; a text that does not parse, a missing text (None) and a        *)
(* ${name} placeholder are leaves of their own.                            *)
(***************************************************************************)
Num(v) == [t |-> "Num", v |-> v]
StrLit == [t |-> "Str"]
NameE == [t |-> "Name"]
CallE == [t |-> "Call"]
SubscriptE == [t |-> "Subscript"]
NoneConst == [t |-> "NoneConst"]
SyntaxErr == [t |-> "SyntaxError"]
MissingE == [t |-> "Missing"]
VarE(name) == [t |-> "Var", name |-> name]
Bin(op, l, r) == [t |-> "BinOp", op |-> op, l |-> l, r |-> r]
Un(op, x) == [t |-> "UnaryOp", op |-> op, x |-> x]
BoolE(op, l, r) == [t |-> "BoolOp", op |-> op, l |-> l, r |-> r]
Cmp(op, l, r) == [t |-> "Compare", op |-> op, l |-> l, r |-> r]

IsInner(e) == e.t \in {"BinOp", "BoolOp", "Compare"}

RECURSIVE Parses(_)
\* ast.parse(expr, mode="eval") succeeds
Parses(e) ==
    IF e.t \in {"SyntaxError", "Missing", "Var"} THEN FALSE
    ELSE IF IsInner(e) THEN Parses(e.l) /\ Parses(e.r)
    ELSE IF e.t = "UnaryOp" THEN Parses(e.x)
    ELSE TRUE

\* has_variable
RECURSIVE has_variable(_)
has_variable(e) ==
    IF e.t = "Var" THEN TRUE
    ELSE IF IsInner(e) THEN has_variable(e.l) \/ has_variable(e.r)
    ELSE IF e.t = "UnaryOp" THEN has_variable(e.x)
    ELSE FALSE

\* replace_variables_with_current_values on an expression text
RECURSIVE replace_variables_with_current_values(_, _)
replace_variables_with_current_values(e, variable_arrays) ==
    IF e.t = "Var" THEN
        IF Has(variable_arrays, e.name)
        THEN (IF variable_arrays[e.name].current_value = NoneV THEN NoneConst
              ELSE Num(variable_arrays[e.name].current_value))
        ELSE e
    ELSE IF IsInner(e) THEN
        [e EXCEPT !.l = replace_variables_with_current_values(e.l, variable_arrays),
                  !.r = replace_variables_with_current_values(e.r, variable_arrays)]
    ELSE IF e.t = "UnaryOp" THEN
        [e EXCEPT !.x = replace_variables_with_current_values(e.x, variable_arrays)]
    ELSE e

\* An instruction line as text with placeholders: a sequence of pieces, each
\* plain text or "${" + lead blanks + name + trail blanks + "}".
Txt(text) == [t |-> "txt", s |-> text, lead |-> 0, trail |-> 0]
Ph(lead, name, trail) == [t |-> "ph", s |-> name, lead |-> lead, trail |-> trail]

\* str(current_value)
ValueText(current_value) == IF current_value = NoneV THEN T_None ELSE FloatStr(current_value)

\* replace_variables_with_current_values on a line of text.  findall yields
\* the text between the braces of each placeholder, blanks included; a
\* name found in the table is substituted by a pattern that admits blanks
\* around it.
replace_variables_in_text(line, variable_arrays) ==
    LET matches == {line[i].s : i \in {j \in 1..Len(line) :
                        line[j].t = "ph" /\ line[j].lead = 0 /\ line[j].trail = 0}}
        known == {var_name \in matches : Has(variable_arrays, var_name)}
    IN [i \in 1..Len(line) |->
           IF line[i].t = "ph" /\ line[i].s \in known
           THEN Txt(ValueText(variable_arrays[line[i].s].current_value))
           ELSE line[i]]

\* _eval: a numeric constant yields its value; the function raises for
\* every other node before it reaches the operator branches.
_eval(n) ==
    IF n.t = "Num" THEN [raised |-> FALSE, v |-> n.v]
    ELSE [raised |-> TRUE, v |-> 0]

safe_eval_bool_uncaught(expr) ==
    IF ~Parses(expr) THEN [raised |-> TRUE, value |-> FALSE]
    ELSE [raised |-> _eval(expr).raised, value |-> (~_eval(expr).raised /\ _eval(expr).v # 0)]
safe_eval_bool(expr) ==
    IF ~Parses(expr) THEN [raised |-> FALSE, value |-> FALSE]
    ELSE IF _eval(expr).raised THEN [raised |-> FALSE, value |-> FALSE]
    ELSE [raised |-> FALSE, value |-> (_eval(expr).v # 0)]

(***************************************************************************)
(* Paths.  A path is a sequence of components; os.path.join appends a      *)
(* component, an f-string that writes a name straight after a path extends *)
(* the last component.  The runner writes its paths with "\" separators.   *)
(***************************************************************************)
Join(path, name) == Append(path, name)
Cat(path, text) == [path EXCEPT ![Len(path)] = @ \o text]
Dirname(path) == SubSeq(path, 1, Len(path) - 1)
Basename(path) == path[Len(path)]

T_atoms == <<".", "a", "t", "o", "m", "s">>
T_csv == <<".", "c", "s", "v">>
T_log == <<".", "l", "o", "g">>
T_status == <<"s", "t", "a", "t", "u", "s", ".", "t", "x", "t">>
T_Out == <<"O", "u", "t">>
T_temp == <<"t", "e", "m", "p", "_">>
\* datetime.now().strftime(...): one run of the model happens within one minute
T_now == <<"@">>

\* Path(p).stem of a script file
Stem(path) == SubSeq(Basename(path), 1, Len(Basename(path)) - Len(T_atoms))

create_out_directory(output_location, dir_name) == Join(output_location, dir_name)

(***************************************************************************)
(* The run-state token.                                                    *)
(***************************************************************************)
TokenTexts == {"Running", "running", "pause", "resume", "stop"}
Lower(text) == IF text = "Running" THEN "running" ELSE text

\* write_status(output_path, status): the file status.txt in the directory
\* of output_path
write_status(toks, output_path, status) == Put(toks, Dirname(output_path), status)

\* check_status_file(output_path): the stripped, lower-cased text of
\* output_path/status.txt; 'running' when the file does not exist
check_status_file(toks, output_path) ==
    IF Has(toks, output_path) THEN Lower(toks[output_path]) ELSE "running"

delete_status_file(toks, output_path) ==
    IF Has(toks, output_path) THEN Del(toks, output_path) ELSE toks

(***************************************************************************)
(* The scripts the model runs.                                             *)
(***************************************************************************)
T_MEAS == <<"M", "E", "A", "S">>
T_Math == <<"M", "a", "t", "h">>
T_SETV == <<"S", "E", "T", "V">>
T_Loop1 == <<"L", "o", "o", "p", "1">>
T_Loop2 == <<"L", "o", "o", "p", "2">>
T_sub == <<"s", "u", "b">>

\* the IF expressions of the scripts: "2==2 and 3>1", "5 + 3", "0", "1",
\* "${Loop1} > 1", "abs(1)"
Equations ==
    << BoolE("and", Cmp("==", Num(2), Num(2)), Cmp(">", Num(3), Num(1))),
       Bin("+", Num(5), Num(3)),
       Num(0),
       Num(1),
       Cmp(">", VarE(T_Loop1), Num(1)),
       CallE >>

\* the expressions after the '=' of the Math lines
MathExprs ==
    << Bin("+", Num(2), Num(4)),
       CallE,
       Bin("+", NameE, Num(1)),
       SyntaxErr >>

\* Loop_start(1):n(N2) ... #NODE2 ... QRY:MEAS? ... #END_NODE2(LE1) ... Loop_end(1)(N3)
LoopQueryScript(n) ==
    << StartScript,
       LoopStart(1, n, 2),
       Node(2), Inst, Action(T_MEAS), Qry, EndNodeTo(2, "LE", 1),
       LoopEndTo(1, "N", 3),
       Node(3), Inst, Action(T_SETV), CmdWrite, EndNode(3),
       EndScript >>

\* three nodes in a row; the last two ends carry no inline successor
LinearScript ==
    << StartScript,
       Node(1), Inst, Action(T_SETV), CmdWrite, EndNodeTo(1, "N", 2),
       Node(2), Inst, CmdWrite, Message, CmdWrite, EndNode(2),
       Node(3), CmdWrite, EndNode(3),
       EndScript >>

\* a node whose only successor is Terminal and that holds a query
TerminalQueryScript ==
    << StartScript,
       Node(1), Inst, Action(T_MEAS), CmdQuery, CmdWrite, EndNode(1),
       EndScript >>

\* a conditional first node
IfScript(e) ==
    << StartScript,
       NodeIf(1, e), TrueLn("N", 2), FalseLn("N", 3), EndIf,
       Node(2), Inst, CmdWrite, EndNode(2),
       Node(3), Inst, CmdWrite, EndNode(3),
       EndScript >>

\* a loop whose variable is named like the sanitised loop column
LoopVariableScript(n) ==
    << StartScript,
       LoopStart(1, n, 2),
       Variable(T_Loop1), RangeConst(1, n, 5),
       Node(2), Inst, Action(T_SETV), CmdWrite, EndNodeTo(2, "LE", 1),
       LoopEndTo(1, "N", 3),
       Node(3), Inst, CmdWrite, EndNode(3),
       EndScript >>

\* a node that calls a sub-workflow; the sub-workflow is a loop of two passes
WorkflowScript ==
    << StartScript,
       Node(1), Inst, Action(T_SETV), CmdWrite, WorkFlow(T_sub), CmdWrite, EndNodeTo(1, "N", 2),
       Node(2), Inst, CmdWrite, EndNode(2),
       EndScript,
       StartWorkflow(T_sub),
       LoopStart(1, 2, 2),
       Variable(T_Loop1), RangeConst(1, 2, 5),
       Node(2), Inst, CmdWrite, EndNodeTo(2, "LE", 1),
       LoopEnd(1),
       EndWorkflow(T_sub) >>

\* a loop whose node calls a sub-workflow; parent and child each hold a loop
\* numbered 1 and a variable named Loop1, with different values
LoopWorkflowScript ==
    << StartScript,
       LoopStart(1, 2, 2),
       Variable(T_Loop1), RangeConst(1, 2, 5),
       Node(2), Inst, WorkFlow(T_sub), CmdWrite, EndNodeTo(2, "LE", 1),
       LoopEndTo(1, "N", 3),
       Node(3), Inst, CmdWrite, EndNode(3),
       EndScript,
       StartWorkflow(T_sub),
       LoopStart(1, 2, 2),
       Variable(T_Loop1), RangeConst(1, 2, 7),
       Node(2), Inst, CmdWrite, EndNodeTo(2, "LE", 1),
       LoopEnd(1),
       EndWorkflow(T_sub) >>

\* a loop of two passes whose variable sweeps from 5 to 7
SweepLoopScript ==
    << StartScript,
       LoopStart(1, 2, 2),
       Variable(T_Loop1), RangeSweep(1, 2, 5, 7, 2),
       Node(2), Inst, Action(T_SETV), CmdWrite, EndNodeTo(2, "LE", 1),
       LoopEndTo(1, "N", 3),
       Node(3), Inst, CmdWrite, EndNode(3),
       EndScript >>

\* a loop of two passes inside a loop of two passes; the successor written
\* on the end of the inner loop is the end of the outer loop
NestedLoopScript ==
    << StartScript,
       LoopStart(1, 2, 2),
       Variable(T_Loop1), RangeConst(1, 2, 5),
       Node(2), Inst, CmdWrite, EndNodeTo(2, "LE", 2),
       LoopStart(2, 2, 3),
       Variable(T_Loop2), RangeConst(1, 2, 7),
       Node(3), Inst, CmdWrite, EndNodeTo(3, "LE", 2),
       LoopEndTo(2, "LE", 1),
       LoopEndTo(1, "N", 4),
       Node(4), Inst, CmdWrite, EndNode(4),
       EndScript >>

\* a loop of two passes whose variable has one value
ShortRangeScript ==
    << StartScript,
       LoopStart(1, 2, 2),
       Variable(T_Loop1), RangeConst(1, 1, 5),
       Node(2), Inst, CmdWrite, EndNodeTo(2, "LE", 1),
       LoopEndTo(1, "N", 3),
       Node(3), Inst, CmdWrite, EndNode(3),
       EndScript >>

\* a loop with two variables; the Range line of the second is malformed
BadRangeScript(form) ==
    << StartScript,
       LoopStart(1, 1, 2),
       Variable(T_Loop1), RangeConst(1, 1, 5),
       Variable(T_SETV), RangeBad(form),
       Node(2), Inst, CmdWrite, EndNodeTo(2, "LE", 1),
       LoopEndTo(1, "N", 3),
       Node(3), Inst, CmdWrite, EndNode(3),
       EndScript >>

\* scripts whose first jump names a node that is not in the script: on a
\* node end ("node"), on a loop end ("loop"), on the TRUE line of a
\* conditional whose expression holds ("branch")
MissingId == 9
UnresolvedScript(kind) ==
    IF kind = "node" THEN
        << StartScript,
           Node(1), Inst, CmdWrite, EndNodeTo(1, "N", MissingId),
           Node(2), Inst, CmdWrite, EndNode(2),
           EndScript >>
    ELSE IF kind = "loop" THEN
        << StartScript,
           LoopStart(1, 1, 2),
           Variable(T_Loop1), RangeConst(1, 1, 5),
           Node(2), Inst, CmdWrite, EndNodeTo(2, "LE", 1),
           LoopEndTo(1, "N", MissingId),
           Node(3), Inst, CmdWrite, EndNode(3),
           EndScript >>
    ELSE
        << StartScript,
           NodeIf(1, 1), TrueLn("N", MissingId), FalseLn("N", 3), EndIf,
           Node(2), Inst, CmdWrite, EndNode(2),
           Node(3), Inst, CmdWrite, EndNode(3),
           EndScript >>
\* a node that captures an image or a setup between two writes
CaptureScript(k) ==
    << StartScript,
       Node(1), Inst, Action(T_MEAS), CmdWrite, Ln(k), CmdWrite, EndNode(1),
       EndScript >>

\* a loop of one pass whose node computes its variable with a Math action
\* and then uses it
MathScript(x) ==
    << StartScript,
       LoopStart(1, 1, 2),
       Variable(T_Loop1), RangeConst(1, 1, 5),
       Node(2), Inst, Action(T_Math), MathLine(T_Loop1, x), CmdWrite, EndNodeTo(2, "LE", 1),
       LoopEndTo(1, "N", 3),
       Node(3), Inst, CmdWrite, EndNode(3),
       EndScript >>

\* a node in a text without the start marker, and in one without the end
\* marker
MarkerlessScript(missing) ==
    IF missing = "start" THEN << Node(1), Inst, CmdWrite, EndNode(1), EndScript >>
    ELSE << StartScript, Node(1), Inst, CmdWrite, EndNode(1) >>

\* scripts whose first element is not node or loop 1 on line 2 of the file:
\* node 2 declared before node 1 ("second-id"), and a loop script below a
\* line of text that precedes the start marker ("offset")
FirstElementScript(kind) ==
    IF kind = "second-id" THEN
        << StartScript,
           Node(2), Inst, CmdWrite, EndNodeTo(2, "N", 1),
           Node(1), Inst, CmdWrite, EndNode(1),
           EndScript >>
    ELSE << Ln("") >> \o LoopVariableScript(1)

UnresolvedScripts == {UnresolvedScript(kind) : kind \in {"node", "loop", "branch"}}

Scripts ==
    {LoopQueryScript(n) : n \in 1..MaxIterations}
    \cup {LoopVariableScript(n) : n \in 1..MaxIterations}
    \cup {IfScript(e) : e \in 1..Len(Equations)}
    \cup {LinearScript, TerminalQueryScript, WorkflowScript, LoopWorkflowScript, ShortRangeScript,
          SweepLoopScript, NestedLoopScript}
    \cup {BadRangeScript(form) : form \in {"no-interval", "short-sweep", "not-a-number"}}
    \cup UnresolvedScripts
    \cup {CaptureScript(k) : k \in {"PNG:", "SET:"}}
    \cup {MathScript(x) : x \in 1..Len(MathExprs)}
    \cup {MarkerlessScript(missing) : missing \in {"start", "end"}}
    \cup {FirstElementScript(kind) : kind \in {"second-id", "offset"}}

(***************************************************************************)
(* The engine instance: the locals of run_script_new.  current_node and    *)
(* next_node are references into script_obj, held as the place they point  *)
(* to.                                                                     *)
(***************************************************************************)
NodePtr(id) == [tbl |-> "nodes", id |-> id, fld |-> ""]
LoopPtr(id) == [tbl |-> "loops", id |-> id, fld |-> ""]
NonePtr == [tbl |-> "none", id |-> 0, fld |-> ""]

\* script_obj["nodes"].get(str(id), {}) and script_obj["loops"].get(str(id), {})
NodesGet(obj, id) == IF Has(obj.nodes, id) THEN NodePtr(id) ELSE NonePtr
LoopsGet(obj, id) == IF Has(obj.loops, id) THEN LoopPtr(id) ELSE NonePtr

CurType(obj, cur) == IF cur.tbl = "nodes" THEN obj.nodes[cur.id].type
                     ELSE IF cur.tbl = "loops" THEN obj.loops[cur.id].type ELSE ""
CurStart(obj, cur) == IF cur.tbl = "nodes" THEN obj.nodes[cur.id].start
                      ELSE IF cur.tbl = "loops" THEN obj.loops[cur.id].start ELSE NoneV
CurEnd(obj, cur) == IF cur.tbl = "nodes" THEN obj.nodes[cur.id].end
                    ELSE IF cur.tbl = "loops" THEN obj.loops[cur.id].end ELSE NoneV

\* current_node.get(key): the reference stored under key, None when absent
CurGet(obj, cur, key) ==
    IF cur.tbl = "nodes" /\ obj.nodes[cur.id][key].type # "" THEN [cur EXCEPT !.fld = key]
    ELSE IF cur.tbl = "loops" /\ key = "next" /\ obj.loops[cur.id].next.type # "" THEN [cur EXCEPT !.fld = key]
    ELSE NonePtr

Deref(obj, ptr) == IF ptr.tbl = "nodes" THEN obj.nodes[ptr.id][ptr.fld]
                   ELSE obj.loops[ptr.id].next

NewEngine(script, script_location, output_location, temp_csv) ==
    [pc |-> "start", error |-> "", outcome |-> "",
     script |-> script, script_location |-> script_location,
     output_location |-> output_location, temp_csv |-> temp_csv,
     script_obj |-> [error |-> "", window |-> [error |-> "", start_line |-> NoneV, end_line |-> NoneV],
                     nodes |-> EmptyMap, loops |-> EmptyMap, warnings |-> <<>>],
     variables |-> EmptyMap,
     current_node |-> NonePtr, next_node |-> NonePtr, node_id |-> 1,
     script_line |-> NoneV, last_line |-> NoneV, Data_line |-> 1,
     running_script |-> TRUE, just_ended_loop |-> FALSE,
     action_count |-> 0, current_action |-> <<>>,
     status |-> "", wait_status |-> "", ret |-> "",
     write_flag |-> NoneV, Measurment |-> [bound |-> FALSE, text |-> <<>>],
     node_info |-> [bound |-> FALSE, node_number |-> NoneV],
     this_loop_current_iteration |-> [bound |-> FALSE, v |-> NoneV],
     outpath |-> <<>>, file_name |-> <<>>, temp_wf_csv |-> <<>>, bodyNo |-> 0, halt |-> ""]

State == [eng |-> eng, stack |-> stack, tokens |-> tokens, csvs |-> csvs,
          logs |-> logs, hist |-> hist]

Crashed(S) == S.eng.pc = "crashed"
Raise(S, err) == [S EXCEPT !.eng.pc = "crashed", !.eng.error = err]
log_print(S) == [S EXCEPT !.logs.mem = TRUE]

\* update_csv_cell(outpath, row, column, value) as the engine calls it
CellUpdate(S, row, column, value) ==
    IF Crashed(S) THEN S
    ELSE IF _sanitize_title(column).raised THEN Raise(S, "AttributeError")
    ELSE IF ~Has(S.csvs, S.eng.outpath) THEN Raise(S, "FileNotFoundError")
    ELSE LET r == update_csv_cell(S.csvs[S.eng.outpath], row, column, value)
         IN IF r.raised # "" THEN Raise(S, r.raised)
            ELSE [S EXCEPT !.csvs = Put(S.csvs, S.eng.outpath, r.rows)]

(***************************************************************************)
(* run_script_new, lines 2266-2335: everything before the outer loop.      *)
(***************************************************************************)
T_root == <<"o", "u", "t">>
T_script == <<"t", "e", "s", "t">>

\* create_csv_file: the path and the name (without extension) of the stream
CsvBaseName(temp_csv) == IF temp_csv THEN T_temp \o T_Out \o T_now ELSE T_Out \o T_now

Startup(S) ==
    LET e == S.eng
        new_dir_name == Stem(e.script_location) \o <<"_">> \o T_now
        out == create_out_directory(e.output_location, new_dir_name)
        S1 == IF ~e.temp_csv THEN log_print(S) ELSE S
        obj == parse_script_structured_v6(e.script)
        current_line == read_line_from_script(e.script, 2)
        toks == write_status(S1.tokens, Join(out, T_status), "Running")
        status == check_status_file(toks, out)
        file_name == CsvBaseName(e.temp_csv)
        outpath == Join(out, file_name \o T_csv)
        variables == get_all_variable_arrays(e.script, obj.window.start_line, obj.window.end_line)
        cur == IF check_line_prefix(current_line, "Loop_start")
               THEN LoopsGet(obj, 1) ELSE NodesGet(obj, 1)
    IN IF obj.error # "" THEN
           Raise([S1 EXCEPT !.tokens = toks, !.eng.output_location = out,
                            !.csvs = Put(S1.csvs, outpath, <<build_csv_headers_from_script(e.script)>>)],
                 "KeyError")
       ELSE [log_print(S1) EXCEPT
                !.tokens = toks,
                !.csvs = Put(S1.csvs, outpath, <<build_csv_headers_from_script(e.script)>>),
                !.eng.output_location = out, !.eng.script_obj = obj,
                !.eng.node_id = 1, !.eng.status = status,
                !.eng.outpath = outpath, !.eng.file_name = file_name,
                !.eng.variables = variables,
                !.eng.current_node = cur, !.eng.next_node = CurGet(obj, cur, "next"),
                !.eng.Data_line = 1, !.eng.running_script = TRUE,
                !.eng.just_ended_loop = FALSE, !.eng.action_count = 0,
                !.eng.pc = "top"]

(***************************************************************************)
(* The outer loop, lines 2336-2348: the poll before a body.                *)
(***************************************************************************)
\* while script_line < last_line + 1
InnerLoopTest(S) ==
    IF S.eng.script_line = NoneV \/ S.eng.last_line = NoneV THEN Raise(S, "TypeError")
    ELSE IF S.eng.script_line < S.eng.last_line + 1 THEN [S EXCEPT !.eng.pc = "line"]
    ELSE [S EXCEPT !.eng.pc = "trans"]

EnterBody(S) ==
    LET S1 == InnerLoopTest(S)
    IN IF S1.eng.pc = "line"
       THEN [S1 EXCEPT !.eng.bodyNo = @ + 1,
                       !.hist.bodies = Append(@, [depth |-> Len(S.stack), id |-> S.eng.node_id,
                                                  tbl |-> S.eng.current_node.tbl])]
       ELSE S1

\* entering wait_while_paused from a suspension point
Suspend(S, ret) ==
    [log_print(S) EXCEPT !.eng.pc = "wait", !.eng.ret = ret, !.eng.wait_status = "",
                         !.hist.paused = [on |-> TRUE, eng |-> S.eng, csvs |-> S.csvs]]

\* the poll before a body with its stop branch left out
Top_unpolled(S) ==
    LET e == S.eng
        status == check_status_file(S.tokens, e.output_location)
        S1 == [S EXCEPT !.eng.script_line = CurStart(e.script_obj, e.current_node),
                        !.eng.last_line = CurEnd(e.script_obj, e.current_node),
                        !.eng.status = status]
    IN IF status = "pause" THEN Suspend(S1, "top")
       ELSE EnterBody(S1)
Top(S) ==
    LET e == S.eng
        status == check_status_file(S.tokens, e.output_location)
        S1 == [S EXCEPT !.eng.script_line = CurStart(e.script_obj, e.current_node),
                        !.eng.last_line = CurEnd(e.script_obj, e.current_node),
                        !.eng.status = status]
    IN IF status = "pause" THEN Suspend(S1, "top")
       ELSE IF status = "stop" THEN [log_print(S1) EXCEPT !.eng.pc = "finish", !.eng.halt = "top"]
       ELSE EnterBody(S1)

(***************************************************************************)
(* wait_while_paused, lines 1263-1288: one pass of its loop, and the write *)
(* of 'Running' that follows an observed resume.                           *)
(***************************************************************************)
\* one pass of the wait in which every text but 'pause' releases the engine
WaitTick_released(S) ==
    LET status == check_status_file(S.tokens, S.eng.output_location)
        S1 == [S EXCEPT !.eng.wait_status = status]
    IN IF status = "resume" THEN [S1 EXCEPT !.eng.pc = "wait_write"]
       ELSE IF status = "stop" THEN [log_print(S1) EXCEPT !.eng.pc = "exited", !.eng.halt = "wait"]
       ELSE IF status # "pause" THEN [S1 EXCEPT !.eng.pc = "resumed"]
       ELSE S1
WaitTick(S) ==
    LET status == check_status_file(S.tokens, S.eng.output_location)
        S1 == [S EXCEPT !.eng.wait_status = status]
    IN IF status = "resume" THEN [S1 EXCEPT !.eng.pc = "wait_write"]
       ELSE IF status = "Running" THEN [S1 EXCEPT !.eng.pc = "resumed"]
       ELSE IF status = "stop" THEN [log_print(S1) EXCEPT !.eng.pc = "exited", !.eng.halt = "wait"]
       ELSE S1                                               \* time.sleep(1)

\* with open(status_file, 'w') as f: f.write('Running'); break
WaitWrite(S) ==
    [S EXCEPT !.tokens = Put(S.tokens, S.eng.output_location, "Running"),
              !.eng.pc = "resumed"]

(***************************************************************************)
(* The inner loop, lines 2350-2628: one line of a body.                    *)
(***************************************************************************)
Obj(S) == S.eng.script_obj
Cur(S) == S.eng.current_node

\* current_node.get("current_iteration") / .get("iterations"): None unless a loop record
CurIteration(S) ==
    IF Cur(S).tbl = "loops" THEN Obj(S).loops[Cur(S).id].current_iteration ELSE NoneV
CurIterations(S) ==
    IF Cur(S).tbl = "loops" THEN Obj(S).loops[Cur(S).id].iterations ELSE NoneV

\* extract_equation(Current_line): the expression of a #NODE<id>_IF line, else None
extract_equation(line) ==
    IF line.k = "#NODE_IF" /\ line.n \in 1..Len(Equations) THEN Equations[line.n] ELSE MissingE

\* lines 2350-2371: refresh current_node and next_node by the type of the
\* current node; an IF node evaluates its expression and skips three lines
TypeRefresh(S) ==
    LET e == S.eng
        type == CurType(e.script_obj, e.current_node)
    IN IF type = "IF" THEN
           LET cur == NodesGet(e.script_obj, e.node_id)
               raw == extract_equation(read_line_from_script(e.script, e.script_line))
               equation == IF has_variable(raw)
                           THEN replace_variables_with_current_values(raw, e.variables) ELSE raw
               r == safe_eval_bool(equation)
               branch == IF r.value THEN "true" ELSE "false"
               nxt == CurGet(e.script_obj, cur, branch)
           IN IF r.raised THEN Raise(S, "ValueError")
              ELSE IF nxt = NonePtr THEN Raise(S, "AttributeError")
              ELSE [log_print(S) EXCEPT !.eng.current_node = cur,
                                        !.eng.script_line = @ + 3,
                                        !.eng.next_node = nxt,
                                        !.hist.branch = [taken |-> branch, value |-> r.value,
                                                         body |-> Len(S.hist.bodies),
                                                         node |-> e.node_id, expr |-> equation,
                                                         target |-> Deref(e.script_obj, nxt)]]
       ELSE IF type = "N" THEN
           LET cur == NodesGet(e.script_obj, e.node_id)
           IN [S EXCEPT !.eng.current_node = cur,
                        !.eng.next_node = CurGet(e.script_obj, cur, "next")]
       ELSE
           LET cur == LoopsGet(e.script_obj, e.node_id)
           IN [S EXCEPT !.eng.current_node = cur,
                        !.eng.next_node = CurGet(e.script_obj, cur, "next")]

\* next_node["id"] = next_num: an assignment through the reference
SetNextId(S, next_num) ==
    LET p == S.eng.next_node
    IN IF p = NonePtr THEN Raise(S, "TypeError")
       ELSE IF p.tbl = "nodes" THEN [S EXCEPT !.eng.script_obj.nodes[p.id][p.fld].id = next_num]
       ELSE [S EXCEPT !.eng.script_obj.loops[p.id].next.id = next_num]

\* get_next_from_loop_end_line: the inline successor of a Loop_end line, or "X"
get_next_from_loop_end_line(line) ==
    IF line.k = "Loop_end" /\ line.rt # "" THEN [type |-> line.rt, id |-> line.rid]
    ELSE [type |-> "X", id |-> XID]

\* lines 2385-2422.  The result carries `brk` when the branch leaves the
\* inner loop with break.
DoLoopStart(S) ==
    LET e == S.eng
        it == CurIteration(S)
        tot == CurIterations(S)
        S0 == [S EXCEPT !.eng.this_loop_current_iteration = [bound |-> TRUE, v |-> it]]
        S1 == IF Cur(S).tbl = "loops"
              THEN [S0 EXCEPT !.eng.script_obj.loops[Cur(S).id].current_iteration =
                                  IF it = NoneV THEN 0 ELSE it]
              ELSE S0
    IN IF it = NoneV \/ tot = NoneV THEN [S |-> Raise(S1, "TypeError"), brk |-> FALSE]
       ELSE IF it > tot THEN
           LET after_loop == get_next_from_loop_end_line(
                                 read_line_from_script(e.script, CurEnd(Obj(S), Cur(S))))
               S2 == log_print(S1)
               cur == IF after_loop.type = "LE" THEN LoopsGet(Obj(S), after_loop.id)
                      ELSE NodesGet(Obj(S), after_loop.id)
           IN IF after_loop.type # "X"
              THEN [S |-> LET S3 == SetNextId([S2 EXCEPT !.eng.current_node = cur], after_loop.id)
                          IN IF Crashed(S3) THEN S3
                             ELSE log_print([S3 EXCEPT !.eng.just_ended_loop = TRUE]),
                    brk |-> TRUE]
              ELSE [S |-> [S2 EXCEPT !.eng.running_script = FALSE], brk |-> TRUE]
       ELSE [S |-> CellUpdate(CellUpdate(log_print(S1), e.Data_line, ColName(T_N), Str(e.Data_line)),
                              e.Data_line, ColName(LoopColumn(e.node_id)), Str(it)),
             brk |-> FALSE]

\* values[k] with Python's index rule: 0 when k is out of range either way
PyIndex(values, k) ==
    IF k >= 0 /\ k < Len(values) THEN k + 1
    ELSE IF k < 0 /\ -k <= Len(values) THEN Len(values) + k + 1
    ELSE 0

\* the Variable dispatch taking the first value in every pass
DoVariable_first_value(S, line) ==
    LET e == S.eng
        name == line.s
    IN IF ~Has(e.variables, name) THEN Raise(S, "KeyError")
       ELSE IF ~e.this_loop_current_iteration.bound THEN Raise(S, "UnboundLocalError")
       ELSE LET values == e.variables[name].values
            IN IF values = <<>> THEN Raise(S, "IndexError")
               ELSE CellUpdate(
                        log_print([S EXCEPT !.eng.variables[name].current_value = values[1]]),
                        e.Data_line, ColName(name), FloatStr(values[1]))

\* lines 2423-2429
DoVariable(S, line) ==
    LET e == S.eng
        it == e.this_loop_current_iteration
        name == line.s
    IN IF ~Has(e.variables, name) THEN Raise(S, "KeyError")
       ELSE IF ~it.bound THEN Raise(S, "UnboundLocalError")
       ELSE IF it.v = NoneV THEN Raise(S, "TypeError")
       ELSE LET values == e.variables[name].values
                i == PyIndex(values, it.v - 1)
            IN IF i = 0 THEN Raise(S, "IndexError")
               ELSE CellUpdate(
                        log_print([S EXCEPT !.eng.variables[name].current_value = values[i]]),
                        e.Data_line, ColName(name), FloatStr(values[i]))

\* eval(expr) on the expressions of the Math lines: arithmetic on numbers
\* is computed, a call is made (CallE stands for abs(-3)), a name that is
\* not defined and a text that does not parse raise
RECURSIVE PyEval(_)
PyEval(e) ==
    IF e.t = "Num" THEN [raised |-> FALSE, v |-> e.v]
    ELSE IF e.t = "Call" THEN [raised |-> FALSE, v |-> 3]
    ELSE IF e.t = "BinOp" THEN
        LET l == PyEval(e.l)
            r == PyEval(e.r)
        IN IF l.raised \/ r.raised THEN [raised |-> TRUE, v |-> 0]
           ELSE [raised |-> FALSE,
                 v |-> IF e.op = "+" THEN l.v + r.v
                       ELSE IF e.op = "-" THEN l.v - r.v ELSE l.v * r.v]
    ELSE [raised |-> TRUE, v |-> 0]

\* eval_expr_after_equal: every failure ends the process with sys.exit(1)
eval_expr_after_equal(expr) ==
    LET r == PyEval(expr)
    IN [exit |-> r.raised, v |-> r.v]

\* lines 2447-2455: the Math action reads the line after it, evaluates the
\* text after '=' and stores the result in the variable before it
DoMath(S) ==
    LET e == S.eng
        Current_line == read_line_from_script(e.script, e.script_line + 1)
        output_variable == Current_line.s
        equation == replace_variables_with_current_values(MathExprs[Current_line.n], e.variables)
        r == eval_expr_after_equal(equation)
        S1 == [S EXCEPT !.eng.script_line = @ + 1]
    IN IF Current_line.c # "math" THEN [S1 EXCEPT !.eng.pc = "exited", !.eng.halt = "math"]
       ELSE IF r.exit THEN [S1 EXCEPT !.eng.pc = "exited", !.eng.halt = "math"]
       ELSE IF ~Has(e.variables, output_variable) THEN Raise(S1, "KeyError")
       ELSE log_print([S1 EXCEPT !.eng.variables[output_variable].current_value = r.v])

\* the replies the transport can give to a query: a text, or None on failure
T_reply == <<"4", ".", "2">>
Replies == {T_reply, T_None}

\* str(node_info['node_number'])
NodeNumberText(n) == IF n = NoneV THEN T_None ELSE Str(n)

\* lines 2471-2480 and 2490-2500: a query, its reply written to the action column
DoQuery(S, reply) ==
    LET e == S.eng
    IN IF ~e.node_info.bound THEN Raise(S, "UnboundLocalError")
       ELSE LET action_column_title ==
                    ActionColumn(e.current_action, <<>>, NodeNumberText(e.node_info.node_number),
                                 e.action_count)
                S1 == CellUpdate([S EXCEPT !.eng.Measurment = [bound |-> TRUE, text |-> reply]],
                                 e.Data_line, ColName(action_column_title), reply)
            IN IF Crashed(S1) THEN S1 ELSE log_print([S1 EXCEPT !.eng.write_flag = 1])

\* lines 2506-2524: a captured artifact, its path written to a sibling column
T_artifact == <<"i", "m", "a", "g", "e">>
\* send_to_read_byte logs a transport failure and returns None, which
\* save_image_data then hands to f.write
DoCapture(S, suffix, reply) ==
    LET e == S.eng
    IN IF reply = T_None THEN Raise(log_print(S), "TypeError")
       ELSE IF ~e.node_info.bound THEN Raise(S, "UnboundLocalError")
       ELSE CellUpdate(S, e.Data_line,
                       ColName(ActionColumn(e.current_action, suffix,
                                            NodeNumberText(e.node_info.node_number), e.action_count)),
                       T_artifact)

\* lines 2543-2563
DoLoopEnd(S) ==
    LET e == S.eng
        S1 == CellUpdate(CellUpdate(S, e.Data_line, ColName(T_Date), T_now),
                         e.Data_line, ColName(T_Time), T_now)
    IN IF e.write_flag = NoneV THEN Raise(S, "UnboundLocalError")
       ELSE IF e.write_flag = 1 THEN
           (IF Crashed(S1) THEN S1 ELSE CellUpdate(S1, e.Data_line, ColIdx(0), Str(e.Data_line)))
       ELSE Raise(S, "NameError")

\* lines 2571-2578
DoMessage(S) ==
    LET e == S.eng
        toks == write_status(S.tokens, Cat(e.output_location, T_status), "pause")
    IN [log_print(S) EXCEPT !.tokens = toks,
                            !.eng.status = check_status_file(toks, e.output_location),
                            !.eng.script_line = @ + 1,
                            !.hist.message = [on |-> TRUE, resumed |-> S.hist.resumed]]

\* lines 2580-2592: up to the call of the child run
DoWorkflowCall(S, line) ==
    LET e == S.eng
        wf_name == line.s
        found == WorkflowInstances(e.script, wf_name)
        next_workflow_path == Cat(e.output_location, wf_name \o T_atoms)
        child == NewEngine(create_subworkflow(found[1].lines), next_workflow_path,
                           e.output_location, TRUE)
        Data_line == e.Data_line + 2
    IN IF found = <<>> THEN Raise(S, "KeyError")
       ELSE IF ~Has(S.csvs, e.outpath) THEN Raise(S, "FileNotFoundError")
       ELSE [log_print(S) EXCEPT
                !.csvs = Put(S.csvs, e.outpath,
                             write_text_to_row_first_col(S.csvs[e.outpath], Data_line, T_Starting)),
                !.stack = Append(S.stack, [e EXCEPT !.Data_line = Data_line, !.pc = "in_call"]),
                !.hist.invoked = [on |-> TRUE, depth |-> Len(S.stack),
                                  variables |-> e.variables, loops |-> e.script_obj.loops],
                !.eng = child]

\* lines 2614-2628: what follows the dispatch of a line
AfterLine(S) ==
    LET e == S.eng
        nxt == CurGet(e.script_obj, e.current_node, "next")
        script_line == e.script_line + 1
        text_line == read_line_from_script(e.script, script_line)
        S1 == [S EXCEPT !.eng.script_line = script_line, !.eng.next_node = nxt,
                        !.eng.ret = "",
                        !.eng.running_script =
                            IF Deref(e.script_obj, nxt).id = XID THEN FALSE ELSE @]
    IN IF nxt = NonePtr THEN Raise([S EXCEPT !.eng.script_line = script_line,
                                             !.eng.next_node = nxt], "AttributeError")
       ELSE IF check_line_prefix(text_line, "Loop_start") \/ check_line_prefix(text_line, "#NODE")
       THEN [S1 EXCEPT !.eng.pc = "trans"]
       ELSE InnerLoopTest(S1)

\* lines 2529-2542: the poll at the end of a node
DoEndNode(S) ==
    LET status == check_status_file(S.tokens, S.eng.output_location)
        S1 == [S EXCEPT !.eng.status = status]
    IN IF status = "pause" THEN Suspend(S1, "end_node")
       ELSE IF status = "stop" THEN [S1 EXCEPT !.eng.pc = "trans", !.eng.halt = "end_node"]
       ELSE AfterLine(S1)

\* one pass of the inner loop over the line at script_line
\* the lines that talk to the instrument
TransportOp(L) ==
    \/ L.k \in {"QRY:", "PNG:", "SET:"}
    \/ L.k = "CMD:" /\ L.c \in {"write", "query"}

\* the chain of prefix tests on a line that is not a loop start, a workflow
\* call or a node end
LineBody(S2, L, reply) ==
    IF check_line_prefix(L, "Variable:") THEN DoVariable(S2, L)
    ELSE IF check_line_prefix(L, "#NODE") THEN
        log_print([S2 EXCEPT !.eng.action_count = 0,
                             !.eng.node_info = [bound |-> TRUE, node_number |-> L.id]])
    ELSE IF check_line_prefix(L, "INST::") THEN
        (IF S2.eng.node_info.bound THEN log_print(S2) ELSE Raise(S2, "UnboundLocalError"))
    ELSE IF check_line_prefix(L, "#ACTION:") THEN
        (LET S4 == log_print([S2 EXCEPT !.eng.action_count = @ + 1,
                                        !.eng.current_action = L.s])
         IN IF L.s = T_Math THEN DoMath(S4) ELSE S4)
    ELSE IF check_line_prefix(L, "CMD:") THEN
        (IF L.c = "wait" THEN log_print(S2)
         ELSE IF L.c = "query" THEN DoQuery(S2, reply)
         ELSE IF reply = T_None THEN log_print(S2)
         ELSE S2)
    ELSE IF check_line_prefix(L, "QRY:") THEN DoQuery(S2, reply)
    ELSE IF check_line_prefix(L, "PNG:") THEN DoCapture(S2, T_img, reply)
    ELSE IF check_line_prefix(L, "SET:") THEN DoCapture(S2, T_set, reply)
    ELSE IF check_line_prefix(L, "Loop_end") THEN DoLoopEnd(S2)
    ELSE IF check_line_prefix(L, "Delay:") THEN log_print(S2)
    ELSE IF check_line_prefix(L, "MESSAGE:") THEN DoMessage(S2)
    ELSE S2

\* after the line: a crash or sys.exit ends the run, otherwise the line
\* counter advances
LineTail(S3) ==
    IF Crashed(S3) \/ S3.eng.pc = "exited" THEN S3 ELSE AfterLine(S3)

Line(S, reply) ==
    LET S1 == TypeRefresh(S)
        L == read_line_from_script(S1.eng.script, S1.eng.script_line)
        S2 == [S1 EXCEPT !.hist.lines = @ + 1,
                         !.hist.failed = TransportOp(L) /\ reply = T_None]
    IN IF Crashed(S1) THEN S1
       ELSE IF check_line_prefix(L, "Loop_start") THEN
           LET r == DoLoopStart(S2)
           IN IF Crashed(r.S) THEN r.S
              ELSE IF r.brk THEN [r.S EXCEPT !.eng.pc = "trans"]
              ELSE AfterLine(r.S)
       ELSE IF check_line_prefix(L, "Work_flow:") THEN DoWorkflowCall(S2, L)
       ELSE IF check_line_prefix(L, "#END_NODE") THEN DoEndNode(S2)
       ELSE LineTail(LineBody(S2, L, reply))

\* the return of wait_while_paused to the suspension point that called it
Resume(S) ==
    LET S1 == log_print([S EXCEPT !.hist.paused.on = FALSE, !.hist.resumed = @ + 1])
    IN IF S.eng.ret = "top" THEN EnterBody(S1) ELSE AfterLine(S1)

(***************************************************************************)
(* Lines 2632-2657: the move to the successor.                             *)
(***************************************************************************)
Trans(S) ==
    LET e == S.eng
        obj == e.script_obj
        nxt == Deref(obj, e.next_node)
        loops1 == IF Has(obj.loops, nxt.id) THEN obj.loops ELSE Put(obj.loops, nxt.id, EmptyLoop)
        ci == loops1[nxt.id].current_iteration
        loops2 == [loops1 EXCEPT ![nxt.id].current_iteration = (IF ci = NoneV THEN 0 ELSE ci) + 1]
        S1 == [S EXCEPT !.eng.script_line = nxt.line, !.eng.node_id = nxt.id, !.eng.pc = "top"]
    IN IF ~e.running_script THEN [S EXCEPT !.eng.pc = "finish"]
       ELSE IF e.next_node = NonePtr THEN Raise(S, "AttributeError")
       ELSE IF nxt.type = "LE" THEN
           [S1 EXCEPT !.eng.script_obj.loops = loops2,
                      !.eng.current_node = LoopPtr(nxt.id),
                      !.eng.Data_line = @ + 1,
                      !.eng.next_node = CurGet([obj EXCEPT !.loops = loops2], LoopPtr(nxt.id), "next")]
       ELSE IF e.just_ended_loop THEN
           [log_print(S1) EXCEPT !.eng.just_ended_loop = FALSE,
                                 !.eng.next_node = CurGet(obj, e.current_node, "next")]
       ELSE
           [S1 EXCEPT !.eng.current_node = NodesGet(obj, nxt.id),
                      !.eng.next_node = CurGet(obj, NodesGet(obj, nxt.id), "next")]

(***************************************************************************)
(* Lines 2663-2680: the end of a run.                                      *)
(***************************************************************************)
\* save_all_logs(file_path)
save_all_logs(lg, file_path) ==
    IF ~lg.mem THEN [lg EXCEPT !.mem = TRUE]
    ELSE [lg EXCEPT !.files = @ \cup {file_path}]

\* the end of a run in which a child hands its variable table and its loop
\* counters to the instance that called it
Finish_shared(S) ==
    LET e == S.eng
        S2 == [S EXCEPT !.logs = save_all_logs(log_print(S).logs, Join(e.output_location, e.file_name \o T_log)),
                        !.tokens = delete_status_file(S.tokens, e.output_location)]
    IN IF S.stack = <<>> THEN [S2 EXCEPT !.eng.pc = "done", !.eng.outcome = "done"]
       ELSE [S2 EXCEPT !.eng = [S.stack[Len(S.stack)] EXCEPT !.pc = "returned",
                                                              !.temp_wf_csv = e.file_name,
                                                              !.variables = e.variables,
                                                              !.script_obj = e.script_obj],
                       !.stack = SubSeq(S.stack, 1, Len(S.stack) - 1)]

Finish(S) ==
    LET e == S.eng
        outcome == IF e.status = "stop" THEN "stopped"
                   ELSE IF e.temp_csv THEN "sub-ended" ELSE "done"
        S1 == IF e.status = "stop" THEN S ELSE log_print(S)
        log_file == Join(e.output_location, e.file_name \o T_log)
        S2 == [S1 EXCEPT !.logs = save_all_logs(S1.logs, log_file),
                         !.tokens = delete_status_file(S1.tokens, e.output_location),
                         !.eng.outcome = outcome,
                         !.hist.ended = Append(@, [depth |-> Len(S.stack), outcome |-> outcome,
                                                   halt |-> e.halt, rows |-> S.csvs[e.outpath],
                                                   at |-> IF S.stack = <<>> THEN NoneV
                                                          ELSE S.stack[Len(S.stack)].Data_line,
                                                   parent |-> IF S.stack = <<>> THEN <<>>
                                                              ELSE S.csvs[S.stack[Len(S.stack)].outpath]])]
    IN IF S.stack = <<>> THEN [S2 EXCEPT !.eng.pc = "done"]
       ELSE [S2 EXCEPT !.eng = [S.stack[Len(S.stack)] EXCEPT !.pc = "returned",
                                                              !.temp_wf_csv = e.file_name],
                       !.stack = SubSeq(S.stack, 1, Len(S.stack) - 1)]

(***************************************************************************)
(* Lines 2592-2603: the parent after the child run has returned.           *)
(***************************************************************************)
WorkflowReturn(S) ==
    LET e == S.eng
        S0 == log_print(S)
        temp_wf_csv == Cat(e.output_location, e.temp_wf_csv \o T_csv)
        merged == concat_csv_into_second(S.csvs[temp_wf_csv], S.csvs[e.outpath], FALSE)
        obj == parse_script_structured_v6(e.script)
        cur == NodesGet(obj, e.node_id)
    IN IF ~Has(S.csvs, e.outpath) \/ ~Has(S.csvs, temp_wf_csv) THEN Raise(S0, "FileNotFoundError")
       ELSE AfterLine([S0 EXCEPT !.csvs = Del(Put(S.csvs, e.outpath, merged), temp_wf_csv),
                                 !.eng.Data_line = Len(merged) - 1,
                                 !.eng.script_line = @ + 1,
                                 !.eng.script_obj = obj,
                                 !.eng.current_node = cur,
                                 !.eng.next_node = CurGet(obj, cur, "next"),
                                 !.hist.spliced = [at |-> e.Data_line, child |-> S.csvs[temp_wf_csv],
                                                   before |-> S.csvs[e.outpath], after |-> merged]])

(***************************************************************************)
(* The state machine.                                                      *)
(***************************************************************************)
NoStop == [armed |-> FALSE, dir |-> <<>>, depth |-> 0, body |-> 0]

InitHist ==
    [bodies |-> <<>>, lines |-> 0, resumed |-> 0, ended |-> <<>>,
     paused |-> [on |-> FALSE, eng |-> <<>>, csvs |-> <<>>],
     branch |-> [taken |-> "", value |-> FALSE, body |-> 0, node |-> 0, expr |-> MissingE,
                 target |-> NoRef],
     spliced |-> [at |-> NoneV, child |-> <<>>, before |-> <<>>, after |-> <<>>],
     invoked |-> [on |-> FALSE, depth |-> 0, variables |-> EmptyMap, loops |-> EmptyMap],
     failed |-> FALSE,
     message |-> [on |-> FALSE, resumed |-> 0],
     stop |-> NoStop, stops |-> 0, pauses |-> 0]

NoEval == [arg |-> MissingE, done |-> FALSE, out |-> [raised |-> FALSE, value |-> FALSE]]

Init ==
    /\ \E script \in Scripts :
           eng = NewEngine(script, <<T_script \o T_atoms>>, <<T_root>>, FALSE)
    /\ stack = <<>>
    /\ tokens = EmptyMap
    /\ csvs = EmptyMap
    /\ logs = [mem |-> FALSE, files |-> {}]
    /\ obs = 0
    /\ hist = InitHist
    /\ ev = NoEval

\* a stop request stays armed as long as the token it was written to still holds it
StillArmed(st, toks) ==
    IF st.armed /\ Has(toks, st.dir) /\ toks[st.dir] = "stop" THEN st ELSE NoStop

Becomes(S) ==
    /\ eng' = S.eng
    /\ stack' = S.stack
    /\ tokens' = S.tokens
    /\ csvs' = S.csvs
    /\ logs' = S.logs
    /\ hist' = [S.hist EXCEPT !.stop = StillArmed(@, S.tokens)]
    /\ UNCHANGED <<obs, ev>>

StartupStep == eng.pc = "start" /\ Becomes(Startup(State))
TopStep == eng.pc = "top" /\ Becomes(Top(State))
WaitTickStep == eng.pc = "wait" /\ Becomes(WaitTick(State))
WaitWriteStep == eng.pc = "wait_write" /\ Becomes(WaitWrite(State))
ResumeStep == eng.pc = "resumed" /\ Becomes(Resume(State))
LineStep == eng.pc = "line" /\ hist.lines < MaxLines /\ \E reply \in Replies : Becomes(Line(State, reply))
TransStep == eng.pc = "trans" /\ Becomes(Trans(State))
FinishStep == eng.pc = "finish" /\ Becomes(Finish(State))
WorkflowReturnStep == eng.pc = "returned" /\ Becomes(WorkflowReturn(State))

\* the directories of the instances that are running: their tokens exist
InstanceDirs ==
    {stack[i].output_location : i \in 1..Len(stack)}
    \cup (IF eng.pc = "start" THEN {} ELSE {eng.output_location})

ObserverTexts == {"pause", "resume", "stop", "running"}

\* the external observer overwrites the token of a running instance
ObserverWrite ==
    /\ obs < MaxObserverWrites
    /\ eng.pc \notin {"done", "crashed", "exited"}
    /\ \E dir \in InstanceDirs, text \in ObserverTexts :
        /\ ~(Has(tokens, dir) /\ tokens[dir] = text)
        /\ tokens' = Put(tokens, dir, text)
        /\ hist' = [hist EXCEPT
                      !.stop = IF text = "stop" /\ dir = eng.output_location /\ eng.pc = "line"
                               THEN [armed |-> TRUE, dir |-> dir, depth |-> Len(stack),
                                     body |-> eng.bodyNo]
                               ELSE StillArmed(@, Put(tokens, dir, text)),
                      !.stops = IF text = "stop" THEN @ + 1 ELSE @,
                      !.pauses = IF text = "pause" THEN @ + 1 ELSE @]
    /\ obs' = obs + 1
    /\ UNCHANGED <<eng, stack, csvs, logs, ev>>

Next ==
    \/ StartupStep
    \/ TopStep
    \/ WaitTickStep
    \/ WaitWriteStep
    \/ ResumeStep
    \/ LineStep
    \/ TransStep
    \/ FinishStep
    \/ WorkflowReturnStep
    \/ ObserverWrite

Spec == Init /\ [][Next]_vars

\* the scripts whose loops are properly nested, with finite
\* iteration counts and value sequences as long, and whose references all
\* resolve
WellFormedLoopScripts ==
    {LoopVariableScript(n) : n \in 1..MaxIterations} \cup {SweepLoopScript, NestedLoopScript}

(***************************************************************************)
(* The evaluator on its own: Init draws an expression, Evaluate applies    *)
(* safe_eval_bool to it.                                                   *)
(***************************************************************************)
Literals == {Num(v) : v \in 0..MaxLiteral}
Operands == Literals \cup {NameE, CallE, StrLit, SubscriptE, NoneConst}
Comparisons == {Cmp(op, l, r) : op \in {"==", ">"}, l \in Literals, r \in Literals}

ExprInputs ==
    Operands
    \cup {SyntaxErr, MissingE}
    \cup {Equations[i] : i \in 1..Len(Equations)}
    \cup {Bin(op, l, r) : op \in {"+", "-", "*"}, l \in Literals, r \in Operands}
    \cup {Un(op, x) : op \in {"+", "-", "not"}, x \in Operands}
    \cup {Cmp(op, l, r) : op \in {"==", "!=", ">", "<", ">=", "<="}, l \in Literals, r \in Operands}
    \cup {BoolE(op, l, r) : op \in {"and", "or"}, l \in Comparisons, r \in Literals}

EvalInit ==
    /\ \E e \in ExprInputs : ev = [arg |-> e, done |-> FALSE,
                                   out |-> [raised |-> FALSE, value |-> FALSE]]
    /\ eng = NewEngine(LinearScript, <<T_script \o T_atoms>>, <<T_root>>, FALSE)
    /\ stack = <<>>
    /\ tokens = EmptyMap
    /\ csvs = EmptyMap
    /\ logs = [mem |-> FALSE, files |-> {}]
    /\ obs = 0
    /\ hist = InitHist

Evaluate ==
    /\ ~ev.done
    /\ ev' = [ev EXCEPT !.done = TRUE, !.out = safe_eval_bool(ev.arg)]
    /\ UNCHANGED <<eng, stack, tokens, csvs, logs, obs, hist>>

EvalNext == Evaluate

SpecEval == EvalInit /\ [][EvalNext]_vars

(***************************************************************************)
(* compute_loop_weight: the step count announced before a run.             *)
(***************************************************************************)
\* loops[idx]["node_count"] += 1 for every idx of loop_stack
RECURSIVE CountNode(_, _)
CountNode(loops, loop_stack) ==
    IF loop_stack = <<>> THEN loops
    ELSE CountNode([loops EXCEPT ![Head(loop_stack)].node_count = @ + 1], Tail(loop_stack))

RECURSIVE WeightScan(_, _, _)
WeightScan(lines, i, W) ==
    IF i > Len(lines) THEN W
    ELSE LET line == lines[i]
         IN IF line.k = "Loop_start" /\ line.rt # ""
            THEN WeightScan(lines, i + 1,
                     [W EXCEPT !.loops = Append(@, [iterations |-> line.n, node_count |-> 0]),
                               !.loop_stack = Append(@, Len(W.loops) + 1)])
            ELSE IF line.k = "Loop_end"
            THEN WeightScan(lines, i + 1,
                     [W EXCEPT !.loop_stack = IF @ = <<>> THEN @ ELSE SubSeq(@, 1, Len(@) - 1)])
            ELSE IF line.k \in {"#NODE", "#NODE_IF"}
            THEN WeightScan(lines, i + 1,
                     [W EXCEPT !.total_node_count = @ + 1,
                               !.loops = CountNode(@, W.loop_stack)])
            ELSE WeightScan(lines, i + 1, W)

RECURSIVE WeightSum(_)
WeightSum(loops) ==
    IF loops = <<>> THEN 0
    ELSE Head(loops).iterations * Head(loops).node_count + WeightSum(Tail(loops))

compute_loop_weight(lines) ==
    LET W == WeightScan(lines, 1, [loops |-> <<>>, loop_stack |-> <<>>, total_node_count |-> 0])
    IN IF W.loops = <<>> THEN W.total_node_count ELSE WeightSum(W.loops)

(***************************************************************************)
(* The pure functions on their own: Init draws a function and its          *)
(* arguments, one action per function applies it.                          *)
(***************************************************************************)
MaxNodes == 2
MaxSweep == 4

\* k nodes in a row, numbered from `from`
RECURSIVE NodeRun(_, _)
NodeRun(from, k) ==
    IF k = 0 THEN <<>>
    ELSE <<Node(from), Inst, CmdWrite, EndNode(from)>> \o NodeRun(from + 1, k - 1)

\* two loops, the second inside the first or after it, with k1 and k2 nodes
\* directly in their bodies
TwoLoopScript(nested, n1, k1, n2, k2) ==
    <<StartScript, LoopStart(1, n1, 10)>> \o NodeRun(10, k1)
    \o (IF nested THEN <<>> ELSE <<LoopEndTo(1, "N", 20)>>)
    \o <<LoopStart(2, n2, 20)>> \o NodeRun(20, k2) \o <<LoopEnd(2)>>
    \o (IF nested THEN <<LoopEnd(1)>> ELSE <<>>)
    \o <<EndScript>>

WeightInputs ==
    {TwoLoopScript(nested, n1, k1, n2, k2) :
        nested \in BOOLEAN, n1 \in 1..MaxIterations, k1 \in 0..MaxNodes,
        n2 \in 1..MaxIterations, k2 \in 0..MaxNodes}
    \cup {<<StartScript>> \o NodeRun(1, k) \o <<EndScript>> : k \in 0..MaxNodes}
    \cup {LoopQueryScript(n) : n \in 1..MaxIterations}

\* a Variable line followed by one sweep, by a sweep and a constant entry,
\* or by the sweep (1,5),(0,10,2.5) in units of 0.5
SweepLines ==
    {RangeSweep(a, b, start, end, step) :
        a \in 1..2, b \in 2..MaxIterations, start \in 0..MaxSweep, end \in 0..MaxSweep,
        step \in -2..2}
RangeInputs ==
    {<<Variable(T_Loop1), r>> : r \in SweepLines}
    \cup {<<Variable(T_Loop1), r, RangeConst(3, 4, v), Inst>> :
             r \in {q \in SweepLines : q.a = 1 /\ q.b = 2 /\ q.step = 1}, v \in 0..1}
    \cup {<<Variable(T_Loop1), RangeSweep(1, 5, 0, 20, 5)>>}

\* lines of up to three pieces, over a table that knows Loop1 and MEAS
LinePieces ==
    {Txt(T_SETV), Ph(0, T_Loop1, 0), Ph(1, T_Loop1, 1), Ph(0, T_MEAS, 0), Ph(0, T_sub, 0)}
LineInputs ==
    {<<>>} \cup {<<p>> : p \in LinePieces} \cup {<<p, q>> : p \in LinePieces, q \in LinePieces}
    \cup {<<p, q, r>> : p \in LinePieces, q \in LinePieces, r \in LinePieces}
TableInputs ==
    {EmptyMap,
     Put(Put(EmptyMap, T_Loop1, [values |-> <<5, 6>>, current_value |-> 5]),
         T_MEAS, [values |-> <<>>, current_value |-> NoneV])}

\* result streams and cell updates: the headers of two scripts, a stream of
\* the header alone or with one data row, and two updates in a row
MaxRow == 2
StreamHeaders ==
    {build_csv_headers_from_script(LoopQueryScript(1)),
     build_csv_headers_from_script(LoopVariableScript(1))}
StreamInputs ==
    {<<h>> : h \in StreamHeaders}
    \cup {<<h, [i \in 1..Len(h) |-> IF i = 1 THEN Str(1) ELSE <<>>]>> : h \in StreamHeaders}
ColumnInputs(header) ==
    {ColName(header[i]) : i \in 1..Len(header)} \cup {ColName(T_sub)} \cup {ColIdx(i) : i \in 0..1}
UpdateInputs(header) ==
    {[row_index |-> r, column |-> c, value |-> v] :
        r \in 1..MaxRow, c \in ColumnInputs(header), v \in {Str(1), T_reply}}

\* scripts for the schema: loop 2 declared before loop 1 or no loop, one
\* or two variables (in one preamble named N and Date, as any name is
\* accepted), a node with two actions and a node with one, every
\* action holding one of the command mixes
CommandMixes ==
    {<<>>, <<CmdWrite>>, <<CmdQuery>>, <<Ln("SET:"), Ln("PNG:"), Qry>>, <<Ln("PNG:")>>,
     <<CmdWrite, Ln("SET:")>>}
SchemaPreambles ==
    {<<>>,
     <<LoopStart(2, 1, 2), Variable(T_SETV), Variable(T_Loop1), Variable(T_SETV)>>,
     <<LoopStart(2, 1, 2), LoopStart(1, 1, 2), LoopStart(2, 1, 2), Variable(T_Loop1)>>,
     <<LoopStart(1, 1, 2), Variable(T_N), Variable(T_Date)>>}
SchemaScripts ==
    {<<StartScript>> \o pre
     \o <<Node(2), Inst, CmdQuery, Action(T_MEAS)>> \o m1
     \o <<Action(<<" ", "S", "E", "T", " ", "V", "!">>)>> \o m2 \o <<EndNode(2)>>
     \o <<Node(3), Action(T_MEAS)>> \o m3 \o <<EndNode(3), EndScript>> :
        pre \in SchemaPreambles, m1 \in CommandMixes, m2 \in CommandMixes, m3 \in CommandMixes}

\* texts of up to MaxWorkflowLines lines made of the start and end markers of
\* two workflow names and a filler line, in every order
MaxWorkflowLines == 4
WorkflowLines ==
    {StartWorkflow(T_sub), EndWorkflow(T_sub), StartWorkflow(T_N), EndWorkflow(T_N), Message}
WorkflowInputs ==
    UNION {[1..n -> WorkflowLines] : n \in 1..MaxWorkflowLines}

\* texts of up to MaxWindow lines made of the window markers and a
\* filler line, in every order
MaxWindow == 4
WindowLines ==
    {StartScript, EndScript, StartWorkflow(T_sub), Message, StartScriptWith("#START_WORKFLOW")}
WindowInputs ==
    UNION {[1..n -> WindowLines] : n \in 1..MaxWindow}

\* scripts with one reference of every kind (on the loop start, the node
\* end, the TRUE and FALSE lines and the loop end), each naming a node or
\* loop end that exists (1) or one that does not (MissingId)
RefTargets == {"N", "LE"} \X {1, MissingId}
RefScripts ==
    {<<StartScript, LoopStart(1, 2, ls), Node(1), CmdWrite, EndNodeTo(1, en[1], en[2]),
       NodeIf(2, 1), TrueLn(tr[1], tr[2]), FalseLn(fa[1], fa[2]), EndIf,
       LoopEndTo(1, le[1], le[2]), EndScript>> :
        ls \in {1, MissingId}, en \in RefTargets, tr \in RefTargets, fa \in RefTargets,
        le \in RefTargets}

\* safe_write_csv(file_path, rows, retries, delay) as the steps of its loop.
\* `file` is the content of file_path, `temp` that of file_path + ".tmp"
\* (NoneV while it does not exist), `locks` what os.replace met on each
\* attempt so far, `waited` the seconds slept.
WriteStart(old) ==
    [pc |-> "attempt", attempt |-> 1, file |-> old, temp |-> NoneV, locks |-> <<>>, waited |-> 0]

\* the head of the loop and open(temp_path, "w"); past the last attempt the
\* final raise
OpenTemp(w, retries) ==
    IF w.attempt > retries THEN [w EXCEPT !.pc = "raised"]
    ELSE [w EXCEPT !.temp = <<>>, !.pc = "write"]

\* the rows written straight into file_path
WriteRow_in_place(w, rows) ==
    [w EXCEPT !.temp = Append(@, rows[Len(@) + 1]),
              !.file = SubSeq(rows, 1, Len(w.temp) + 1),
              !.pc = IF Len(w.temp) + 1 = Len(rows) THEN "replace" ELSE "write"]

\* writer.writerows(rows), one row at a time, into the temporary file
WriteRow(w, rows) ==
    [w EXCEPT !.temp = Append(@, rows[Len(@) + 1]),
              !.pc = IF Len(w.temp) + 1 = Len(rows) THEN "replace" ELSE "write"]

\* os.replace(temp_path, file_path): on a locked file PermissionError, the
\* temporary file is removed and the loop sleeps; otherwise the file is
\* replaced in one step and the function returns
Replace(w, locked, delay) ==
    IF locked
    THEN [w EXCEPT !.temp = NoneV, !.locks = Append(@, TRUE), !.attempt = @ + 1,
                   !.waited = @ + delay, !.pc = "attempt"]
    ELSE [w EXCEPT !.file = w.temp, !.temp = NoneV, !.locks = Append(@, FALSE),
                   !.pc = "returned"]

\* writes of one or two rows over a stream of one or two rows, with up to
\* MaxRetries attempts
MaxRetries == 3
WriteInputs ==
    [retries : 1..MaxRetries, delay : {1, 2},
     old : {<<T_N>>, <<T_N, Str(1)>>},
     rows : {<<T_Date>>, <<T_Date, Str(2)>>}]

CallsInit ==
    /\ \/ \E lines \in WeightInputs :
              ev = [fn |-> "compute_loop_weight", arg |-> lines, done |-> FALSE, out |-> NoneV]
       \/ \E lines \in RangeInputs :
              ev = [fn |-> "parse_variable_ranges", arg |-> lines, done |-> FALSE, out |-> NoneV]
       \/ \E rows \in StreamInputs :
            \E first \in UpdateInputs(rows[1]), second \in UpdateInputs(rows[1]) :
              ev = [fn |-> "update_csv_cell", arg |-> <<first, second>>, done |-> FALSE,
                    out |-> [file |-> rows, updates |-> <<>>]]
       \/ \E script \in WindowInputs \cup RefScripts :
              ev = [fn |-> "parse_script_structured_v6", arg |-> script, done |-> FALSE,
                    out |-> NoneV]
       \/ \E script \in WorkflowInputs :
              ev = [fn |-> "parse_workflows_from_script", arg |-> script, done |-> FALSE,
                    out |-> NoneV]
       \/ \E call \in WriteInputs :
              ev = [fn |-> "safe_write_csv", arg |-> call, done |-> FALSE,
                    out |-> WriteStart(call.old)]
       \/ \E second \in StreamInputs, first \in StreamInputs :
            \E update \in UpdateInputs(second[1]) :
              ev = [fn |-> "Work_flow",
                    arg |-> [second |-> second, first |-> first, update |-> update],
                    done |-> FALSE,
                    out |-> [pc |-> "concat", file |-> second, Data_line |-> Len(second) - 1,
                             merged |-> <<>>, raised |-> ""]]
       \/ \E script \in SchemaScripts :
              ev = [fn |-> "build_csv_headers_from_script", arg |-> script, done |-> FALSE,
                    out |-> NoneV]
       \/ \E line \in LineInputs, table \in TableInputs :
              ev = [fn |-> "replace_variables_with_current_values",
                    arg |-> [line |-> line, variable_arrays |-> table],
                    done |-> FALSE, out |-> NoneV]
    /\ eng = NewEngine(LinearScript, <<T_script \o T_atoms>>, <<T_root>>, FALSE)
    /\ stack = <<>>
    /\ tokens = EmptyMap
    /\ csvs = EmptyMap
    /\ logs = [mem |-> FALSE, files |-> {}]
    /\ obs = 0
    /\ hist = InitHist

Returns(fn, out) ==
    /\ ~ev.done
    /\ ev.fn = fn
    /\ ev' = [ev EXCEPT !.done = TRUE, !.out = out]
    /\ UNCHANGED <<eng, stack, tokens, csvs, logs, obs, hist>>

ComputeLoopWeightCall == Returns("compute_loop_weight", compute_loop_weight(ev.arg))

ParseVariableRangesCall == Returns("parse_variable_ranges", parse_variable_ranges(ev.arg, 1))

ReplaceVariablesCall ==
    Returns("replace_variables_with_current_values",
            replace_variables_in_text(ev.arg.line, ev.arg.variable_arrays))

\* the next of the updates of ev.arg, applied to the stream as it is now
UpdateCsvCellCall ==
    /\ ~ev.done
    /\ ev.fn = "update_csv_cell"
    /\ LET call == ev.arg[Len(ev.out.updates) + 1]
           r == update_csv_cell(ev.out.file, call.row_index, call.column, call.value)
       IN ev' = [ev EXCEPT !.done = (Len(ev.out.updates) + 1 = Len(ev.arg)),
                           !.out.file = r.rows,
                           !.out.updates = Append(@, [call |-> call, before |-> ev.out.file,
                                                      raised |-> r.raised, after |-> r.rows])]
    /\ UNCHANGED <<eng, stack, tokens, csvs, logs, obs, hist>>

BuildCsvHeadersCall ==
    Returns("build_csv_headers_from_script", build_csv_headers_from_script(ev.arg))

ParseScriptCall ==
    Returns("parse_script_structured_v6", parse_script_structured_v6(ev.arg))

ParseWorkflowsCall ==
    Returns("parse_workflows_from_script", parse_workflows_from_script(ev.arg))

SafeWriteStep(pc, w) ==
    /\ ~ev.done
    /\ ev.fn = "safe_write_csv"
    /\ ev.out.pc = pc
    /\ ev' = [ev EXCEPT !.out = w, !.done = w.pc \in {"returned", "raised"}]
    /\ UNCHANGED <<eng, stack, tokens, csvs, logs, obs, hist>>

SafeWriteOpen == SafeWriteStep("attempt", OpenTemp(ev.out, ev.arg.retries))
SafeWriteRows == SafeWriteStep("write", WriteRow(ev.out, ev.arg.rows))
SafeWriteReplace ==
    \E locked \in BOOLEAN : SafeWriteStep("replace", Replace(ev.out, locked, ev.arg.delay))

\* lines 2589-2594 on the parent stream `second`, the child stream being
\* `first`: two rows further the 'Starting script' row, then the splice, and
\* Data_line = concat_csv_into_second(temp_wf_csv, outpath) - 1
SpliceCall ==
    /\ ~ev.done
    /\ ev.fn = "Work_flow"
    /\ ev.out.pc = "concat"
    /\ LET Data_line == ev.out.Data_line + 2
           started == write_text_to_row_first_col(ev.out.file, Data_line, T_Starting)
           merged == concat_csv_into_second(ev.arg.first, started, FALSE)
       IN ev' = [ev EXCEPT !.out = [pc |-> "update", file |-> merged,
                                    Data_line |-> Len(merged) - 1,
                                    merged |-> merged, raised |-> ""]]
    /\ UNCHANGED <<eng, stack, tokens, csvs, logs, obs, hist>>

\* the next cell update of the parent run: update_csv_cell(outpath, Data_line, ...)
UpdateAfterSpliceCall ==
    /\ ~ev.done
    /\ ev.fn = "Work_flow"
    /\ ev.out.pc = "update"
    /\ LET r == update_csv_cell(ev.out.file, ev.out.Data_line,
                                ev.arg.update.column, ev.arg.update.value)
       IN ev' = [ev EXCEPT !.done = TRUE,
                           !.out.pc = "returned", !.out.file = r.rows, !.out.raised = r.raised]
    /\ UNCHANGED <<eng, stack, tokens, csvs, logs, obs, hist>>

CallsNext ==
    \/ SafeWriteOpen
    \/ SpliceCall
    \/ UpdateAfterSpliceCall
    \/ SafeWriteRows
    \/ SafeWriteReplace
    \/ ComputeLoopWeightCall
    \/ ParseScriptCall
    \/ ParseWorkflowsCall
    \/ BuildCsvHeadersCall
    \/ UpdateCsvCellCall
    \/ ParseVariableRangesCall
    \/ ReplaceVariablesCall

SpecCalls == CallsInit /\ [][CallsNext]_vars

(***************************************************************************)
(* Vocabulary of the properties.                                           *)
(***************************************************************************)
\* the instance the user started, and the bodies it has entered
RootEngine == IF stack = <<>> THEN eng ELSE stack[1]
RootBodies == SelectSeq(hist.bodies, LAMBDA b : b.depth = 0)
RunEnded == stack = <<>> /\ eng.pc \in {"done", "crashed", "exited"}

\* the result stream of the running instance: its header and its data rows
Stream == IF Has(csvs, eng.outpath) THEN csvs[eng.outpath] ELSE <<>>
DataRows == IF Stream = <<>> THEN <<>> ELSE Tail(Stream)
Cell(row, name) == row[IndexOf(Stream[1], name)]
RowComplete(row) == \A i \in 1..Len(row) : row[i] # <<>>

\* the value of an expression of the grammar under the standard semantics
RECURSIVE InGrammar(_)
InGrammar(e) ==
    IF e.t = "Num" THEN TRUE
    ELSE IF IsInner(e) THEN InGrammar(e.l) /\ InGrammar(e.r)
    ELSE IF e.t = "UnaryOp" THEN InGrammar(e.x)
    ELSE FALSE

Truthy(b) == IF b THEN 1 ELSE 0

RECURSIVE StandardValue(_)
StandardValue(e) ==
    IF e.t = "Num" THEN e.v
    ELSE IF e.t = "UnaryOp" THEN
        (IF e.op = "-" THEN 0 - StandardValue(e.x)
         ELSE IF e.op = "not" THEN Truthy(StandardValue(e.x) = 0)
         ELSE StandardValue(e.x))
    ELSE IF e.t = "BinOp" THEN
        (IF e.op = "+" THEN StandardValue(e.l) + StandardValue(e.r)
         ELSE IF e.op = "-" THEN StandardValue(e.l) - StandardValue(e.r)
         ELSE StandardValue(e.l) * StandardValue(e.r))
    ELSE IF e.t = "Compare" THEN
        (IF e.op = "==" THEN Truthy(StandardValue(e.l) = StandardValue(e.r))
         ELSE IF e.op = "!=" THEN Truthy(StandardValue(e.l) # StandardValue(e.r))
         ELSE IF e.op = ">" THEN Truthy(StandardValue(e.l) > StandardValue(e.r))
         ELSE IF e.op = "<" THEN Truthy(StandardValue(e.l) < StandardValue(e.r))
         ELSE IF e.op = ">=" THEN Truthy(StandardValue(e.l) >= StandardValue(e.r))
         ELSE Truthy(StandardValue(e.l) <= StandardValue(e.r)))
    ELSE IF e.op = "and" THEN
        (IF StandardValue(e.l) = 0 THEN StandardValue(e.l) ELSE StandardValue(e.r))
    ELSE (IF StandardValue(e.l) # 0 THEN StandardValue(e.l) ELSE StandardValue(e.r))

StandardTruth(e) == InGrammar(e) /\ StandardValue(e) # 0

(***************************************************************************)
(* Properties of the evaluator (checked under SpecEval).                   *)
(***************************************************************************)
\* C8: for every expression built only from numeric literals, arithmetic,
\* unary, comparison and boolean operators, safe_eval_bool returns the truth
\* value the expression has under the standard semantics ("2==2 and 3>1"
\* and "5 + 3" are true).
C8_EvalStandardTruth ==
    (ev.done /\ InGrammar(ev.arg)) => (ev.out.value = StandardTruth(ev.arg))

\* C9: safe_eval_bool never raises, and an input that holds a name, a call,
\* a string, a subscript, that does not parse or that is missing yields
\* false.
C9_EvalFailsClosed ==
    ev.done => /\ ~ev.out.raised
               /\ (~InGrammar(ev.arg) => ev.out.value = FALSE)

\* a call expression has been evaluated: the result is false, nothing raised
C9_CallEvaluated ==
    /\ ev.done
    /\ ev.arg = CallE
    /\ ev.out = [raised |-> FALSE, value |-> FALSE]

(***************************************************************************)
(* Properties of the engine (checked under Spec).                          *)
(***************************************************************************)
\* the execution state of an instance: current node, successor, loop
\* counters (in script_obj), variable values, data-row index, line position
ExecState(e) ==
    <<e.current_node, e.next_node, e.node_id, e.script_obj, e.variables, e.Data_line,
      e.script_line, e.last_line, e.action_count, e.running_script, e.just_ended_loop>>

\* C1: a run of the one-loop script with N iterations and a query node ends
\* complete, with exactly N data rows, the k-th holding Loop(1) = k and a
\* populated query column.
C1_LoopRowsPerIteration ==
    \A n \in 1..MaxIterations :
        (eng.script = LoopQueryScript(n) /\ RunEnded /\ obs = 0) =>
            /\ eng.pc = "done"
            /\ Len(DataRows) = n
            /\ \A k \in 1..n :
                /\ Cell(DataRows[k], LoopColumn(1)) = Str(k)
                /\ Cell(DataRows[k], ActionColumn(T_MEAS, <<>>, Str(2), 1)) # <<>>

\* C2: once the observer has written stop to the token of an instance that
\* is in the middle of a body, and as long as the token still holds it, that
\* instance dispatches no line of a later body.
C2_StopHaltsBeforeNextBody ==
    (hist.stop.armed /\ Len(stack) = hist.stop.depth /\ eng.output_location = hist.stop.dir) =>
        eng.bodyNo = hist.stop.body

\* the stop written mid-body has been read by the poll before the next body
C2_StopObserved ==
    /\ hist.stop.armed
    /\ Len(stack) = hist.stop.depth
    /\ eng.output_location = hist.stop.dir
    /\ eng.pc = "finish"
    /\ eng.status = "stop"
    /\ eng.bodyNo = hist.stop.body

\* a loop of the instance still has iterations to run
MidLoop(e) ==
    \E id \in DOMAIN e.script_obj.loops :
        /\ e.script_obj.loops[id].iterations # NoneV
        /\ e.script_obj.loops[id].current_iteration <= e.script_obj.loops[id].iterations

\* C3: when stop halts a run in the middle of a loop iteration, every data
\* row of the stream is complete and no row index appears twice.
C3_StopLeavesCompleteRows ==
    (stack = <<>> /\ eng.pc = "done" /\ eng.outcome = "stopped" /\ MidLoop(eng)
        /\ DataRows # <<>>) =>
        /\ \A k \in 1..Len(DataRows) : RowComplete(DataRows[k])
        /\ \A j, k \in 1..Len(DataRows) :
               j # k => Cell(DataRows[j], T_N) # Cell(DataRows[k], T_N)

C5_StopHaltFlushes ==
    (stack = <<>> /\ (eng.pc = "exited" \/ (eng.pc = "done" /\ eng.outcome = "stopped"))) =>
        /\ eng.pc = "done"
        /\ Join(eng.output_location, eng.file_name \o T_log) \in logs.files
        /\ ~Has(tokens, eng.output_location)

\* the i-th body of the root instance is a node whose successor is Terminal
TerminalBody(i) ==
    /\ RootBodies[i].tbl = "nodes"
    /\ Has(RootEngine.script_obj.nodes, RootBodies[i].id)
    /\ RootEngine.script_obj.nodes[RootBodies[i].id].next.id = XID

\* C6: a node whose successor is Terminal is the last body the run enters;
\* unless a stop is requested, the run gets through its lines and ends with
\* normal completion.
C6_TerminalNodeEndsRun ==
    \A i \in 1..Len(RootBodies) :
        TerminalBody(i) =>
            /\ i = Len(RootBodies)
            /\ (hist.stops = 0 => RootEngine.pc # "crashed")
            /\ (hist.stops = 0 /\ RootEngine.pc = "done" => RootEngine.outcome = "done")

\* C7: after a conditional node has been evaluated the run goes on, and the
\* next body it enters is the element named by the TRUE reference when the
\* (substituted) expression is true, by the FALSE reference when it is false.
C7_BranchFollowsExpression ==
    (hist.branch.taken # "" /\ stack = <<>>
        /\ (eng.pc \in {"done", "crashed", "exited"} \/ Len(hist.bodies) > hist.branch.body)) =>
        LET node == eng.script_obj.nodes[hist.branch.node]
            ref == IF StandardTruth(hist.branch.expr) THEN node.true ELSE node.false
        IN /\ Len(hist.bodies) > hist.branch.body
           /\ hist.bodies[hist.branch.body + 1].id = ref.id
           /\ hist.bodies[hist.branch.body + 1].tbl = (IF ref.type = "LE" THEN "loops" ELSE "nodes")

\* the row of a stream that marks the end of a spliced child stream
DelimiterRow(width) == <<T_SubEnded>> \o BlankRow(width - 1)

\* C10: once a sub-workflow call is over, the parent stream is what it was at
\* the invocation point followed by the child's M data rows, one delimiter
\* row and one copy of the parent header, and nothing else.
C10_SpliceChildRows ==
    (stack = <<>> /\ hist.ended # <<>> /\ hist.ended[1].depth = 1
        /\ eng.pc \notin {"returned"}) =>
        LET before == hist.ended[1].parent
            child == hist.ended[1].rows
        IN /\ hist.spliced.at # NoneV
           /\ hist.spliced.after =
                  before \o Tail(child) \o <<DelimiterRow(Len(before[1]))>> \o <<before[1]>>

\* the state a sub-workflow invocation must leave alone: the variable table
\* and the loop records (with their current_iteration) of the caller
CallerFrame(e) == <<e.variables, e.script_obj.loops>>
ChildReturned == hist.invoked.on /\ Len(stack) = hist.invoked.depth /\ eng.pc = "returned"

\* C11: when the child of a sub-workflow invocation has completed, and
\* through the rest of the Work_flow line, the variable current values and
\* the current_iteration of every loop of the parent are what they were
\* immediately before the invocation.
C11_ChildKeepsParentState ==
    [][(ChildReturned => CallerFrame(eng) = <<hist.invoked.variables, hist.invoked.loops>>)
       /\ (ChildReturned /\ WorkflowReturnStep =>
              CallerFrame(eng') = <<hist.invoked.variables, hist.invoked.loops>>)]_vars

\* a child has returned to a parent that is inside a loop pass and holds a
\* variable whose value differs from the child's
C11_ReturnedInsideLoop ==
    /\ ChildReturned
    /\ \E id \in DOMAIN eng.script_obj.loops : eng.script_obj.loops[id].current_iteration >= 1
    /\ Has(eng.variables, T_Loop1)
    /\ eng.variables[T_Loop1].current_value = 5
    /\ \E i \in 1..Len(hist.ended) : hist.ended[i].depth = 1 /\ Len(hist.ended[i].rows) = 3

\* the executable window of a script, and the ids of the nodes declared in
\* it, in textual order
Window(script) ==
    LET w == ScriptWindow(script)
    IN IF w.start_line = NoneV THEN <<>> ELSE SubSeq(script, w.start_line, w.end_line)
DeclaredNodes(script) ==
    LET nodes == SelectSeq(Window(script), LAMBDA l : l.k = "#NODE")
    IN [i \in 1..Len(nodes) |-> nodes[i].id]
IsLinear(script) ==
    \A i \in 1..Len(Window(script)) : Window(script)[i].k \notin {"Loop_start", "#NODE_IF", "Work_flow:"}

\* C12: a complete run of a script with no loops and no conditionals has
\* dispatched every node of the executable window exactly once, in textual
\* order, also when node ends carry no inline successor.
C12_LinearPassInOrder ==
    (IsLinear(RootEngine.script) /\ RunEnded /\ eng.pc = "done" /\ eng.outcome = "done") =>
        /\ \A i \in 1..Len(RootBodies) : RootBodies[i].tbl = "nodes"
        /\ [i \in 1..Len(RootBodies) |-> RootBodies[i].id] = DeclaredNodes(RootEngine.script)

\* the iteration count of the loop that governs line i: the nearest
\* Loop_start above it
RECURSIVE GoverningIterations(_, _)
GoverningIterations(script, i) ==
    IF i < 1 THEN NoneV
    ELSE IF script[i].k = "Loop_start" THEN script[i].n
    ELSE GoverningIterations(script, i - 1)

\* a variable of the window whose Range entries are well formed and hold
\* more or fewer values than its governing loop has iterations
ValueCountMismatch(script) ==
    \E i \in 1..Len(Window(script)) :
        /\ Window(script)[i].k = "Variable:"
        /\ parse_variable_ranges(Window(script), i).raised = ""
        /\ GoverningIterations(Window(script), i) # NoneV
        /\ Len(parse_variable_ranges(Window(script), i).values) # GoverningIterations(Window(script), i)

\* C15: a variable whose value sequence is not as long as the iteration
\* count of its governing loop makes parsing fail with a RangeFormatError
\* before execution starts, and no run ever looks a variable up out of
\* range.
C15_RangeLengthChecked ==
    /\ ~(eng.pc = "crashed" /\ eng.error = "IndexError")
    /\ (ValueCountMismatch(RootEngine.script) /\ RootEngine.pc # "start") =>
           (RootEngine.pc = "crashed" /\ RootEngine.error = "RangeFormatError" /\ hist.lines = 0)

\* a Range line of the window that the parser cannot read
MalformedRange(script) ==
    \E i \in 1..Len(Window(script)) :
        Window(script)[i].k = "Range:" /\ RangeError(Window(script)[i]) # ""

\* C16: a malformed Range definition is fatal at parse time: once the
\* variables have been parsed the run has ended with an error, no line has
\* been dispatched, and nothing runs on a partially built variable table.
C16_MalformedRangeIsFatal ==
    (MalformedRange(RootEngine.script) /\ RootEngine.pc # "start") =>
        (RootEngine.pc = "crashed" /\ hist.lines = 0)

\* the node records the parse gives for the script of the root instance,
\* and the standard nodes whose end marker names no successor although a
\* line of the window follows it
RootParse == parse_script_structured_v6(RootEngine.script)
FallsThrough(id) ==
    /\ Has(RootParse.nodes, id)
    /\ RootParse.nodes[id].type # "IF"
    /\ RootParse.nodes[id].end # NoneV
    /\ RootEngine.script[RootParse.nodes[id].end].rt = ""
    /\ RootParse.nodes[id].end < RootParse.window.end_line

\* C23: a standard node whose end marker carries no inline successor
\* continues at the line after its end marker: its implicit successor is
\* that line, and once the run has completed, the node declared on that
\* line has been dispatched right after it; the successor is Terminal only
\* past the end of the window.
C23_ImplicitSuccessorIsNextLine ==
    (RunEnded /\ eng.outcome = "done") =>
        \A i \in 1..Len(RootBodies) :
            LET id == RootBodies[i].id
                after == RootParse.nodes[id].end + 1
            IN (RootBodies[i].tbl = "nodes" /\ FallsThrough(id)) =>
                  /\ RootParse.nodes[id].next.line = after
                  /\ RootParse.nodes[id].next.id # XID
                  /\ RootEngine.script[after].k = "#NODE" =>
                        /\ i < Len(RootBodies)
                        /\ RootBodies[i + 1].id = RootEngine.script[after].id

\* C25: when the engine follows a reference whose target could not be
\* resolved (after a node, after a loop, on a conditional branch) it treats
\* the successor as Terminal: the run completes normally, without an error
\* and without dispatching any node after the one that held the reference.
C25_UnresolvedIsTerminal ==
    (RootEngine.script \in UnresolvedScripts /\ RunEnded) =>
        /\ eng.pc # "crashed"
        /\ eng.error = ""
        /\ \A i \in 1..Len(RootBodies) : RootBodies[i].id \notin {3, MissingId}

\* C26: a transport failure on an instrument operation (write, query,
\* image or setup capture) is logged and not propagated: the step that
\* meets it does not end the run, and the engine moves on to the next line.
C26_TransportFailureIsolated ==
    [][(eng.pc = "line" /\ hist'.lines = hist.lines + 1 /\ hist'.failed) =>
          /\ logs'.mem
          /\ eng'.pc # "crashed"
          /\ eng'.script_line = eng.script_line + 1]_vars

\* the Math action the engine is about to execute, the variable it assigns
\* and whether its expression stays within numbers and arithmetic operators
OnMathAction ==
    /\ eng.pc = "line"
    /\ eng.script_line \in 1..Len(eng.script) - 1
    /\ eng.script[eng.script_line].k = "#ACTION:"
    /\ eng.script[eng.script_line].s = T_Math
MathTarget == eng.script[eng.script_line + 1].s
RECURSIVE Arithmetic(_)
Arithmetic(e) ==
    IF e.t = "Num" THEN TRUE
    ELSE IF e.t = "BinOp" THEN Arithmetic(e.l) /\ Arithmetic(e.r)
    ELSE FALSE

\* C27: a Math action whose expression is unsupported (holds a name or a
\* call) or malformed aborts only that action: nothing is evaluated, the
\* target variable keeps its value and the engine goes on with the next
\* instruction instead of ending the run.
C27_MathFailureIsolated ==
    [][(OnMathAction /\ hist'.lines = hist.lines + 1
           /\ ~Arithmetic(MathExprs[eng.script[eng.script_line + 1].n])) =>
          /\ eng'.pc \notin {"exited", "crashed"}
          /\ eng'.variables[MathTarget].current_value = eng.variables[MathTarget].current_value
          /\ eng'.script_line = eng.script_line + 2]_vars

\* the engine is about to execute a MESSAGE line
OnMessage ==
    /\ eng.pc = "line"
    /\ eng.script_line \in 1..Len(eng.script)
    /\ eng.script[eng.script_line].k = "MESSAGE:"

\* C28: on a MESSAGE line the engine writes the pause state into the
\* run-state token it polls and logs the message, and from then on it
\* dispatches no instruction until the wait for an external resume has
\* returned.
C28_MessagePausesRun ==
    [][/\ (OnMessage /\ hist'.lines = hist.lines + 1) =>
              /\ Has(tokens', eng.output_location)
              /\ Lower(tokens'[eng.output_location]) = "pause"
              /\ logs'.mem
       /\ (hist.message.on /\ hist'.lines = hist.lines + 1) =>
              hist.resumed > hist.message.resumed]_vars

\* C29: if the required window markers are absent the run aborts before
\* any side effect: once the start-up has run, the run has ended, no line
\* has been dispatched to an instrument, no result stream exists and no
\* run-state token has been written.
C29_ParseFailureBeforeSideEffects ==
    (ScriptWindow(RootEngine.script).error # "" /\ RootEngine.pc # "start") =>
        /\ RunEnded
        /\ hist.lines = 0
        /\ DOMAIN csvs = {}
        /\ DOMAIN tokens = {}

\* the loop whose start line the running instance is about to dispatch, and
\* the successor written inline on its matching end line
AtLoopStart ==
    /\ eng.pc = "line"
    /\ eng.current_node = LoopPtr(eng.node_id)
    /\ read_line_from_script(eng.script, eng.script_line).k = "Loop_start"
    /\ read_line_from_script(eng.script, eng.script_line).id = eng.node_id
LoopRecord == eng.script_obj.loops[eng.node_id]
LoopEndLine == read_line_from_script(eng.script, LoopRecord.end)
LoopSuccessor ==
    IF LoopEndLine.rt = "LE" THEN LoopPtr(LoopEndLine.rid) ELSE NodePtr(LoopEndLine.rid)

\* C32: a loop-start line reached with current_iteration > iterations
\* finishes the loop: the engine leaves for the successor named inline on
\* the matching loop-end line and the loop's current_iteration is reset to
\* 0; reached with current_iteration <= iterations, the engine goes on into
\* the loop body.
C32_LoopStartDispatch ==
    [][(AtLoopStart /\ hist'.lines = hist.lines + 1) =>
          IF LoopRecord.current_iteration > LoopRecord.iterations
          THEN /\ eng'.pc = "trans"
               /\ LoopEndLine.rt # "" => eng'.current_node = LoopSuccessor
               /\ eng'.script_obj.loops[eng.node_id].current_iteration = 0
          ELSE /\ eng'.pc = "line"
               /\ eng'.script_line = eng.script_line + 1]_vars

\* the step dispatches the declaration line of the variable, and the
\* iteration its governing loop is in
DispatchesVariable(name) ==
    /\ eng.pc = "line"
    /\ hist'.lines = hist.lines + 1
    /\ read_line_from_script(eng.script, eng.script_line).k = "Variable:"
    /\ read_line_from_script(eng.script, eng.script_line).s = name
GoverningIteration ==
    IF eng.current_node.tbl = "loops" /\ Has(eng.script_obj.loops, eng.current_node.id)
    THEN eng.script_obj.loops[eng.current_node.id].current_iteration
    ELSE NoneV
MathAssigns(name) == OnMathAction /\ hist'.lines = hist.lines + 1 /\ MathTarget = name

\* what every step of one instance does to one variable: the value
\* sequence stays as it is, and the dispatch of the declaration line in
\* iteration i moves current_value to the i-th value
VariableStep(name) ==
    /\ Has(eng'.variables, name)
    /\ eng'.variables[name].values = eng.variables[name].values
    /\ (DispatchesVariable(name) /\ eng'.pc # "crashed") =>
           /\ GoverningIteration \in 1..Len(eng.variables[name].values)
           /\ eng'.variables[name].current_value = eng.variables[name].values[GoverningIteration]

\* C33 as stated: current_value moves once per iteration of the governing
\* loop, at the dispatch of the declaration line, to the i-th value of the
\* sequence, and nothing else moves it, so that every later substitution of
\* iteration i uses the i-th value; the value sequence is never modified.
C33_CursorFollowsIteration ==
    [][Len(stack') = Len(stack) =>
          \A name \in DOMAIN eng.variables :
              /\ VariableStep(name)
              /\ eng'.variables[name].current_value # eng.variables[name].current_value
                     => DispatchesVariable(name)]_vars

\* C33: current_value moves to the i-th value of the sequence at the
\* dispatch of the declaration line in iteration i, and only a Math action
\* that assigns the variable moves it otherwise; the value sequence is
\* never modified.
C33_CursorFollowsIterationOrMath ==
    [][Len(stack') = Len(stack) =>
          \A name \in DOMAIN eng.variables :
              /\ VariableStep(name)
              /\ eng'.variables[name].current_value # eng.variables[name].current_value
                     => (DispatchesVariable(name) \/ MathAssigns(name))]_vars

\* the second pass of the sweep loop has dispatched the declaration: the
\* cursor is on the second value, 7
C33_SecondValueCurrent ==
    /\ RootEngine.script = SweepLoopScript
    /\ stack = <<>>
    /\ Len(hist.bodies) = 4
    /\ eng.pc = "line"
    /\ eng.script[eng.script_line].k = "#NODE"
    /\ eng.variables[T_Loop1].values = <<5, 7>>
    /\ eng.variables[T_Loop1].current_value = 7

\* the bodies of node `id` the root run has entered, and the passes the
\* script declares for the node on line i: the product of the iteration
\* counts of the loops that enclose it
Entries(id) ==
    Cardinality({b \in 1..Len(hist.bodies) :
                    /\ hist.bodies[b].depth = 0
                    /\ hist.bodies[b].tbl = "nodes"
                    /\ hist.bodies[b].id = id})
Enclosing(script, i) ==
    {j \in 1..(i - 1) : /\ script[j].k = "Loop_start"
                        /\ \E m \in (i + 1)..Len(script) :
                               script[m].k = "Loop_end" /\ script[m].id = script[j].id}
RECURSIVE Passes(_, _)
Passes(script, open) ==
    IF open = {} THEN 1
    ELSE LET j == CHOOSE x \in open : TRUE
         IN script[j].n * Passes(script, open \ {j})

\* C34: in a run of a script with properly nested finite loops and resolved
\* references, during which the observer never writes to the token, every
\* loop completes after its declared number of iterations, also when the
\* successor of an inner loop is the end of the outer loop: no node is
\* entered more often than the loops around it declare, so the run halts.
C34_LoopsCompleteAsDeclared ==
    (RootEngine.script \in WellFormedLoopScripts /\ obs = 0) =>
        \A i \in 1..Len(RootEngine.script) :
            RootEngine.script[i].k = "#NODE" =>
                Entries(RootEngine.script[i].id) <=
                    Passes(RootEngine.script, Enclosing(RootEngine.script, i))

\* the instances of the run, the parent instances included
RunInstances == {eng} \cup {stack[i] : i \in 1..Len(stack)}

\* the texts recorded in the Loop(<id>) column of the result stream
LoopCells(id) ==
    IF Stream = <<>> THEN {}
    ELSE {DataRows[r][c] : r \in 1..Len(DataRows),
                           c \in {x \in 1..Len(Stream[1]) : Stream[1][x] = LoopColumn(id)}}
         \ {<<>>}

\* C35: in every state of a run the current_iteration of every loop lies
\* in 0..iterations + 1, and every value recorded in the Loop(<id>) column
\* lies in 1..iterations.
C35_IterationBounds ==
    \A inst \in RunInstances :
        \A id \in DOMAIN inst.script_obj.loops :
            LET loop == inst.script_obj.loops[id]
            IN (loop.iterations # NoneV /\ loop.current_iteration # NoneV) =>
                  /\ loop.current_iteration \in 0..(loop.iterations + 1)
                  /\ inst = eng =>
                        LoopCells(id) \subseteq {Str(k) : k \in 1..loop.iterations}

\* C36: once the run has started the engine never overwrites a stop the
\* observer has written: whatever the interleaving of the observer's writes
\* with the engine's polls (a resume followed by a stop during a pause
\* included), a token that holds stop still holds it after every step of
\* the engine, until the instance that owns it has halted and removes it;
\* and the poll that reads it halts the engine.
C36_StopNeverOverwritten ==
    [][obs' = obs =>
          \A dir \in DOMAIN tokens :
              tokens[dir] = "stop" =>
                  /\ \/ Has(tokens', dir) /\ tokens'[dir] = "stop"
                     \/ eng.pc = "finish" /\ dir = eng.output_location
                  /\ (dir = eng.output_location /\ eng.pc \in {"top", "wait"}) =>
                         eng'.pc \in {"finish", "exited"}]_vars

\* the engine has just read stop in the poll at the end of a node (lines
\* 2537-2538) and has not moved since
StopReadAtNodeEnd == eng.pc = "trans" /\ eng.status = "stop"

\* C37: when the engine reads stop at the node-end suspension point the run
\* ends there: the step that follows performs no successor transition (no
\* loop's current_iteration is incremented, the data-row index does not
\* advance, no other body is entered) and leads to the end of the run, whatever
\* the observer has written to the token in between.
C37_StopAtNodeEndEndsRun ==
    [][(StopReadAtNodeEnd /\ obs' = obs) =>
          /\ eng'.pc \in {"finish", "exited"}
          /\ eng'.Data_line = eng.Data_line
          /\ eng'.script_obj.loops = eng.script_obj.loops
          /\ eng'.node_id = eng.node_id]_vars

\* C39: within one execution of a node every instruction line is dispatched
\* exactly once and in textual order: while the engine stays in the body, the
\* line dispatched after line k is line k + 1 (k + 2 after a Math action,
\* whose expression line is consumed with it), in particular after a MESSAGE
\* line and after the return of a Work_flow call.
C39_LinesDispatchedInOrder ==
    [][/\ (eng.pc = "line" /\ hist'.lines = hist.lines + 1 /\ eng'.pc = "line"
              /\ Len(stack') = Len(stack)) =>
             eng'.script_line = eng.script_line + (IF OnMathAction THEN 2 ELSE 1)
       /\ (eng.pc = "returned" /\ eng'.pc = "line") =>
             eng'.script_line = eng.script_line + 1]_vars

\* the first structural element (node, conditional node or loop) declared in
\* the executable window of a script, as a place of the parsed tables
StructuralLines(script) ==
    LET w == ScriptWindow(script)
    IN {i \in w.start_line..w.end_line : script[i].k \in {"#NODE", "#NODE_IF", "Loop_start"}}
FirstElement(script) ==
    LET i == CHOOSE i \in StructuralLines(script) : \A j \in StructuralLines(script) : i <= j
    IN IF script[i].k = "Loop_start" THEN LoopPtr(script[i].id) ELSE NodePtr(script[i].id)

\* C40: execution begins at the first structural element declared in the
\* executable window, whatever its numeric id and whatever line of the file
\* the window starts on: the start-up of a run leaves the engine on that
\* element.
C40_StartsAtFirstElement ==
    [][(/\ eng.pc = "start"
        /\ eng'.pc # "start"
        /\ ScriptWindow(eng.script).error = ""
        /\ StructuralLines(eng.script) # {}) =>
          /\ eng'.pc = "top"
          /\ eng'.current_node = FirstElement(eng.script)]_vars

(***************************************************************************)
(* Properties of the pure functions (checked under SpecCalls).             *)
(***************************************************************************)
Called(fn) == ev.done /\ ev.fn = fn

\* the step count of the specification: every node counts once for each
\* pass of the loops that enclose it (the iteration counts of nested loops
\* multiply, sibling loops sum, a node outside every loop counts once)
RECURSIVE Product(_)
Product(sq) == IF sq = <<>> THEN 1 ELSE Head(sq) * Product(Tail(sq))
RECURSIVE ExpectedSteps(_, _, _)
ExpectedSteps(lines, i, open) ==
    IF i > Len(lines) THEN 0
    ELSE IF lines[i].k = "Loop_start" THEN ExpectedSteps(lines, i + 1, Append(open, lines[i].n))
    ELSE IF lines[i].k = "Loop_end" /\ open # <<>>
         THEN ExpectedSteps(lines, i + 1, SubSeq(open, 1, Len(open) - 1))
    ELSE IF lines[i].k \in {"#NODE", "#NODE_IF"}
         THEN Product(open) + ExpectedSteps(lines, i + 1, open)
    ELSE ExpectedSteps(lines, i + 1, open)

\* every node of the script is inside a loop, or the script has no loop
AllNodesInLoops(lines) ==
    \/ \A i \in 1..Len(lines) : lines[i].k # "Loop_start"
    \/ \A i \in 1..Len(lines) : lines[i].k \in {"#NODE", "#NODE_IF"} =>
           \E j \in 1..(i - 1) : /\ lines[j].k = "Loop_start"
                                  /\ \A m \in j..i : ~(lines[m].k = "Loop_end" /\ lines[m].id = lines[j].id)

\* C13: compute_loop_weight returns the total expected step count: N*K for
\* a loop of N iterations with K nodes directly in its body, the product of
\* the iteration counts for a node inside nested loops, the sum over
\* sibling loops, and the number of nodes when there is no loop.
C13_LoopWeightIsStepCount ==
    (Called("compute_loop_weight") /\ AllNodesInLoops(ev.arg)) =>
        ev.out = ExpectedSteps(ev.arg, 1, <<>>)

\* the expansion of one Range entry as the specification words it: value
\* k + 1 is value k plus step, or end once that sum passes end in the
\* direction of step
RECURSIVE ExpandedValue(_, _)
ExpandedValue(line, k) ==
    IF k = 1 THEN line.v
    ELSE LET sum == ExpandedValue(line, k - 1) + line.step
         IN IF (line.step > 0 /\ sum > line.hi) \/ (line.step < 0 /\ sum < line.hi)
            THEN line.hi ELSE sum
ExpandedEntry(line) ==
    [k \in 1..(line.b - line.a + 1) |-> IF line.c = "sweep" THEN ExpandedValue(line, k) ELSE line.v]
RECURSIVE ExpandedEntries(_, _)
ExpandedEntries(lines, i) ==
    IF i <= Len(lines) /\ lines[i].k = "Range:"
    THEN ExpandedEntry(lines[i]) \o ExpandedEntries(lines, i + 1)
    ELSE <<>>

RECURSIVE Flat(_)
Flat(line) ==
    IF line = <<>> THEN <<>>
    ELSE LET p == Head(line)
         IN (IF p.t = "txt" THEN p.s
             ELSE <<"$", "{">> \o Repeat(" ", p.lead) \o p.s \o Repeat(" ", p.trail) \o <<"}">>)
            \o Flat(Tail(line))

\* the substitution of the specification: every placeholder whose name is
\* in the table becomes the string form of its current value, every other
\* piece stays
Substituted(line, table) ==
    [i \in 1..Len(line) |->
        IF line[i].t = "ph" /\ Has(table, line[i].s)
        THEN Txt(ValueText(table[line[i].s].current_value))
        ELSE line[i]]

\* C17: replace_variables_with_current_values replaces every ${name} token
\* whose name is in the variable table by the string form of the current
\* value, leaves tokens with unknown names unchanged, and returns a line
\* with no known placeholder as it is.
C17_SubstitutesKnownNames ==
    Called("replace_variables_with_current_values") =>
        Flat(ev.out) = Flat(Substituted(ev.arg.line, ev.arg.variable_arrays))

\* the cell updates made so far by the calls of update_csv_cell
Updates == IF ev.fn = "update_csv_cell" THEN ev.out.updates ELSE <<>>

\* the column an update addresses in the header of the stream it is applied
\* to: the position of the name it gives, or its ordinal index (0-based);
\* 0 when the name is not in the header
Addressed(u) ==
    IF ~u.call.column.isStr THEN u.call.column.i + 1
    ELSE IF InSeq(u.call.column.s, u.before[1]) THEN IndexOf(u.before[1], u.call.column.s)
    ELSE 0

\* C18: a cell update whose column is a name of the header (the derived
\* names Loop(<id>) and <title>(N<node>|A<index>) included) or an ordinal
\* index writes the value into exactly that column of the addressed row.
C18_UpdateWritesAddressedColumn ==
    \A k \in 1..Len(Updates) :
        LET u == Updates[k]
        IN Addressed(u) # 0 =>
              /\ u.raised = ""
              /\ u.after[u.call.row_index + 1][Addressed(u)] = u.call.value

\* C19: a successful cell update sets exactly the addressed cell: blank
\* rows of header width are appended until the row exists, the addressed
\* cell holds the value, no other cell (the header included) changes; so
\* repeating an update changes nothing and a later update of a cell wins.
C19_UpdateSetsExactlyOneCell ==
    /\ \A k \in 1..Len(Updates) :
          LET u == Updates[k]
              padded == PadRows(u.before, u.call.row_index, Len(u.before[1]))
          IN u.raised = "" =>
                /\ Addressed(u) # 0
                /\ u.after = [padded EXCEPT ![u.call.row_index + 1][Addressed(u)] = u.call.value]
    /\ (Len(Updates) = 2 /\ Updates[1].raised = "" /\ Updates[2].raised = ""
        /\ Updates[1].call = Updates[2].call) => Updates[2].after = Updates[1].after

\* The schema of the specification, read off the script line by line.
\* The actions of a script, in order: where each starts, the node it is in,
\* its index within that node, and the lines it holds.
IsBreak(line) == line.k \in {"#ACTION:", "#NODE", "#END_NODE"}
ActionStarts(script) == SelectSeq([i \in 1..Len(script) |-> i], LAMBDA i : script[i].k = "#ACTION:")
NodeStartOf(script, i) ==
    CHOOSE j \in 1..i : script[j].k = "#NODE" /\ \A m \in (j + 1)..i : script[m].k \notin {"#NODE", "#END_NODE"}
ActionIndexOf(script, i) ==
    Cardinality({m \in NodeStartOf(script, i)..i : script[m].k = "#ACTION:"})
ActionBody(script, i) ==
    {m \in (i + 1)..Len(script) : \A j \in (i + 1)..m : ~IsBreak(script[j])}
ActionHas(script, i, kinds) ==
    \E m \in ActionBody(script, i) :
        \/ script[m].k \in kinds
        \/ "QRY:" \in kinds /\ script[m].k = "CMD:" /\ script[m].c = "query"
ExpectedActionColumns(script, i) ==
    LET title == _sanitize_title(ColName(script[i].s)).col.s
        node == Str(script[NodeStartOf(script, i)].id)
        idx == ActionIndexOf(script, i)
    IN (IF ActionHas(script, i, {"QRY:"}) THEN <<ActionColumn(title, <<>>, node, idx)>> ELSE <<>>)
       \o (IF ActionHas(script, i, {"PNG:"}) THEN <<ActionColumn(title, T_img, node, idx)>> ELSE <<>>)
       \o (IF ActionHas(script, i, {"SET:"}) THEN <<ActionColumn(title, T_set, node, idx)>> ELSE <<>>)
RECURSIVE ExpectedColumns(_, _)
ExpectedColumns(script, starts) ==
    IF starts = <<>> THEN <<>>
    ELSE ExpectedActionColumns(script, Head(starts)) \o ExpectedColumns(script, Tail(starts))
ExpectedHeader(script) ==
    LET ids == SortedSeq(LoopNumbers(script))
    IN <<T_N>> \o [i \in 1..Len(ids) |-> LoopColumn(ids[i])]
       \o VariableNames(script, 1, <<>>)
       \o ExpectedColumns(script, ActionStarts(script))
       \o <<T_Date, T_Time>>

C21_HeaderNamesUnique ==
    Called("build_csv_headers_from_script") =>
        \A i, j \in 1..Len(ev.out) : ev.out[i] = ev.out[j] => i = j

\* the marker lines of a text, as the window detection sees them
MarkerLines(script, from, k) == {i \in from..Len(script) : HasMarker(script[i], k)}
Least(S) == CHOOSE i \in S : \A j \in S : i <= j
ParseFailed == ev.out.error # ""
WindowOf(start, end) == [error |-> "", start_line |-> start, end_line |-> end]

\* C22 as stated: the parse fails exactly when there is no start marker,
\* or no end marker at or after the start marker and no sub-workflow
\* marker after it; otherwise the window runs from the first start marker
\* to the first end marker at or after it or, without one, to the line
\* before the first sub-workflow marker, and start_line <= end_line.
C22_WindowDetection ==
    Called("parse_script_structured_v6") =>
        LET starts == MarkerLines(ev.arg, 1, "#START_SCRIPT")
            start == Least(starts)
            ends == MarkerLines(ev.arg, start, "#END_SCRIPT")
            after == MarkerLines(ev.arg, start + 1, "#START_WORKFLOW")
        IN IF starts = {} \/ (ends = {} /\ after = {}) THEN ParseFailed
           ELSE /\ ~ParseFailed
                /\ ev.out.window =
                      WindowOf(start, IF ends # {} THEN Least(ends) ELSE Least(after) - 1)
                /\ ev.out.window.start_line <= ev.out.window.end_line

\* C22 amended: the parse also fails when there is no end marker and the
\* first sub-workflow marker at or after the start marker is on the start
\* line itself, whatever follows.
C22_WindowDetectionAmended ==
    Called("parse_script_structured_v6") =>
        LET starts == MarkerLines(ev.arg, 1, "#START_SCRIPT")
            start == Least(starts)
            ends == MarkerLines(ev.arg, start, "#END_SCRIPT")
            from == MarkerLines(ev.arg, start, "#START_WORKFLOW")
        IN IF starts = {} \/ (ends = {} /\ (from = {} \/ start \in from)) THEN ParseFailed
           ELSE /\ ~ParseFailed
                /\ ev.out.window =
                      WindowOf(start, IF ends # {} THEN Least(ends) ELSE Least(from) - 1)
                /\ ev.out.window.start_line <= ev.out.window.end_line

\* a text with an end marker only before the start marker and a
\* sub-workflow marker after it: the window closes before the sub-workflow
C22_WindowClosedAtWorkflow ==
    /\ Called("parse_script_structured_v6")
    /\ ev.arg = <<EndScript, StartScript, Message, StartWorkflow(T_sub)>>
    /\ ev.out.window = WindowOf(2, 3)

\* the references written in a parsed text: the lines of the window that
\* name a successor, and whether the node or loop end they name exists
RefLines(script, w) ==
    {i \in w.start_line..w.end_line :
        script[i].k \in {"#END_NODE", "Loop_start", "Loop_end", "TRUE:", "FALSE:"} /\ script[i].rt # ""}
TargetExists(script, w, rt, rid) ==
    \E i \in w.start_line..w.end_line :
        /\ script[i].id = rid
        /\ script[i].k \in (IF rt = "N" THEN {"#NODE", "#NODE_IF"} ELSE {"Loop_end"})
Warned(i) == \E k \in 1..Len(ev.out.warnings) : ev.out.warnings[k].source_line = i

\* C24: every jump reference written in the script (on a node end, a loop
\* start, a loop end, a TRUE or a FALSE line) whose target node or loop end
\* does not exist is recorded as a warning of the parse result.
C24_UnresolvedReferenceWarned ==
    (Called("parse_script_structured_v6") /\ ~ParseFailed) =>
        \A i \in RefLines(ev.arg, ev.out.window) :
            ~TargetExists(ev.arg, ev.out.window, ev.arg[i].rt, ev.arg[i].rid) => Warned(i)

\* C30: a write of the result stream is retried while the file is locked,
\* a bounded number of times with a fixed delay: it succeeds at the first
\* attempt that finds the file unlocked, it fails after exactly `retries`
\* attempts when every attempt found it locked, and at every moment the
\* file holds its complete previous content or the complete new content.
C30_BoundedAtomicWrite ==
    ev.fn = "safe_write_csv" =>
        LET w == ev.out
            n == Len(w.locks)
        IN /\ n <= ev.arg.retries
           /\ w.waited = ev.arg.delay * Cardinality({i \in 1..n : w.locks[i]})
           /\ \A i \in 1..(n - 1) : w.locks[i]
           /\ w.file \in {ev.arg.old, ev.arg.rows}
           /\ (w.file = ev.arg.rows) <=> (w.pc = "returned")
           /\ (w.pc = "returned") <=> (n >= 1 /\ ~w.locks[n])
           /\ (w.pc = "raised") <=> (n = ev.arg.retries /\ w.locks[n] /\ w.attempt > ev.arg.retries
                                        /\ ev.done)
           /\ ev.done <=> w.pc \in {"returned", "raised"}

\* a write of two rows that met a locked file twice and got through at the
\* third and last attempt
C30_WrittenAtLastAttempt ==
    /\ Called("safe_write_csv")
    /\ ev.arg.retries = 3
    /\ ev.out.locks = <<TRUE, TRUE, FALSE>>
    /\ ev.out.file = <<T_Date, Str(2)>>
    /\ ev.out.temp = NoneV

\* the workflow markers of a text, and whether a start of the name is still
\* open (not yet followed by an end of that name) when line e is read
WorkflowStarts(script) == {i \in 1..Len(script) : script[i].k = "#START_WORKFLOW"}
WorkflowEnds(script) == {i \in 1..Len(script) : script[i].k = "#END_WORKFLOW"}
EndsAfter(script, s) == {e \in WorkflowEnds(script) : e > s /\ script[e].s = script[s].s}
OpenAt(script, e) ==
    \E s \in WorkflowStarts(script) :
        /\ s < e
        /\ script[s].s = script[e].s
        /\ \A x \in EndsAfter(script, s) : x >= e
WorkflowWarned(out, kind, line) ==
    \E i \in 1..Len(out.warnings) : out.warnings[i] = [kind |-> kind, line |-> line]

\* C31: every start marker followed by an end marker of its name yields one
\* instance, from that start to the first such end, whose body is the lines
\* strictly between them; the instances are listed in textual order; a
\* start marker with no end of its name yields a warning and no instance;
\* an end marker met while no start of its name is open yields a warning
\* and closes nothing.
C31_WorkflowExtraction ==
    Called("parse_workflows_from_script") =>
        LET script == ev.arg
            W == ev.out.workflows
            At(s) == {i \in 1..Len(W) : W[i].start_line = s}
        IN /\ \A i \in 1..Len(W) : W[i].start_line \in WorkflowStarts(script)
           /\ \A i, j \in 1..Len(W) : i < j => W[i].start_line < W[j].start_line
           /\ \A s \in WorkflowStarts(script) :
                  IF EndsAfter(script, s) = {}
                  THEN At(s) = {} /\ WorkflowWarned(ev.out, "no-end", s)
                  ELSE /\ Cardinality(At(s)) = 1
                       /\ \A i \in At(s) :
                              /\ W[i].name = script[s].s
                              /\ W[i].end_line \in EndsAfter(script, s)
                              /\ \A x \in EndsAfter(script, s) : W[i].end_line <= x
                              /\ W[i].lines = SubSeq(script, s + 1, W[i].end_line - 1)
           /\ \A e \in WorkflowEnds(script) :
                  ~OpenAt(script, e) =>
                      /\ WorkflowWarned(ev.out, "no-start", e)
                      /\ \A i \in 1..Len(W) : W[i].end_line # e

\* the parent stream after a splice and the parent's next cell update
SplicedThenUpdated == ev.fn = "Work_flow" /\ ev.done /\ ev.out.raised = ""

====
